---- MODULE Spec2Model ----
(***************************************************************************)
(* A model of the template-directive interpreter of red5-server/framework: *)
(* the dispatcher `step`, the directive handlers `caseBlock` and `each`,   *)
(* the template resolver `extend`, and the lookup helpers they use.        *)
(*                                                                         *)
(* The DOM is a node store (a sequence of nodes, a node's identity is its  *)
(* index); asynchronous functions are coroutines: a task is a stack of     *)
(* awaited calls, and `cpu` is the synchronous call stack of tasks, so a   *)
(* task runs without interleaving until it reaches an await.               *)
(***************************************************************************)
EXTENDS Integers, Sequences, FiniteSets, TLC

VARIABLES
  store,    \* the DOM: node id -> [tag, attr, kids, orig]
  tasks,    \* the asynchronous calls in flight: task id -> [frames, by]
  cpu,      \* the synchronous call stack of tasks; its last entry runs
  data,     \* the TemplateData handed to step: {originalData, scopes}
  context,  \* the vm context of each: binding name -> value
  last,     \* the last handler that returned to step: [el, kind, changed, ...]
  calls,    \* how many handlers step has invoked (saturating)
  doc0,     \* the store as it was when step was called
  loaded,   \* the files require has loaded in this render
  ext,      \* the state of the template resolver (extend)
  lookup,   \* the call of a lookup helper: its arguments and what it gave
  db,       \* a DB object, its connection and the call made on it
  srv       \* the server: its clients and the request being handled

vars == <<store, tasks, cpu, data, context, last, calls, doc0, loaded, ext, lookup, db, srv>>

\* the variables of the template renderer
RenderVars == <<store, tasks, cpu, data, context, last, calls, doc0, loaded, ext, lookup>>

----------------------------------------------------------------------------
(* Bounds of the model *)

\* the largest number of nodes below the root of a generated document
MaxInitNodes == 2
\* the handler-invocation counter saturates here
MaxCalls == 3
\* the largest number of nodes below the root of a generated parent template
MaxTplNodes == 2
\* the scopes on a scope stack are at most this many
MaxScopes == 2

----------------------------------------------------------------------------
(* Sequences *)

Range(q) == {q[k] : k \in DOMAIN q}

IndexOf(q, x) == IF x \in Range(q) THEN CHOOSE k \in DOMAIN q : q[k] = x /\ \A j \in 1..(k - 1) : q[j] # x ELSE 0

Without(q, x) == SelectSeq(q, LAMBDA y : y # x)

RECURSIVE Flatten(_)
Flatten(qq) == IF qq = <<>> THEN <<>> ELSE Head(qq) \o Flatten(Tail(qq))

\* q with its k-th element replaced by the elements of r
Splice(q, k, r) == SubSeq(q, 1, k - 1) \o r \o SubSeq(q, k + 1, Len(q))

----------------------------------------------------------------------------
(* Values and text.  A JavaScript value is a tagged record; a string of    *)
(* template text is a sequence of tokens, where "{{", "}}", "$" and "."    *)
(* are tokens of their own and every other token is a run of other         *)
(* characters.                                                             *)

Undef == [t |-> "undefined", v |-> "undefined", k |-> <<>>]
Null == [t |-> "null", v |-> "null", k |-> <<>>]
Num(s) == [t |-> "number", v |-> s, k |-> <<>>]
Str(s) == [t |-> "string", v |-> s, k |-> <<>>]
Bool(s) == [t |-> "boolean", v |-> s, k |-> <<>>]
\* an object: its keys in insertion order, and its properties
Obj(ks, f) == [t |-> "object", v |-> f, k |-> ks]
Arr(q) == [t |-> "array", v |-> q, k |-> <<>>]

\* JavaScript truthiness
Truthy(x) ==
  CASE x.t \in {"undefined", "null"} -> FALSE
    [] x.t = "number" -> x.v # "0"
    [] x.t = "string" -> x.v # ""
    [] x.t = "boolean" -> x.v = "true"
    [] OTHER -> TRUE

\* the decimal text of a small index, as JavaScript property keys are strings
Digit(k) == CASE k = 0 -> "0" [] k = 1 -> "1" [] k = 2 -> "2" [] k = 3 -> "3" [] OTHER -> "9"

\* obj[key] for a key given as a sequence of tokens
Prop(obj, seg) ==
  CASE obj.t = "object" ->
         IF Len(seg) = 1 /\ seg[1] \in DOMAIN obj.v THEN obj.v[seg[1]] ELSE Undef
    [] obj.t = "array" ->
         IF Len(seg) = 1 /\ \E k \in DOMAIN obj.v : Digit(k - 1) = seg[1]
         THEN obj.v[CHOOSE k \in DOMAIN obj.v : Digit(k - 1) = seg[1]]
         ELSE IF seg = <<"length">> THEN Num(Digit(Len(obj.v))) ELSE Undef
    [] OTHER -> Undef

\* String.prototype.split('.')
RECURSIVE SplitDot(_)
SplitDot(q) ==
  IF q = <<>> THEN << <<>> >>
  ELSE LET r == SplitDot(Tail(q))
       IN  IF Head(q) = "." THEN << <<>> >> \o r
           ELSE << <<Head(q)>> \o Head(r) >> \o Tail(r)

RECURSIVE FindFrom(_, _)
FindFrom(segs, obj) ==
  IF segs = <<>> THEN obj
  ELSE FindFrom(Tail(segs), IF Truthy(obj) THEN Prop(obj, Head(segs)) ELSE obj)

\* find(query, data): query.split('.').reduce((obj, val) => obj ? obj[val] : obj, data)
find(query, d) == FindFrom(SplitDot(query), d)

\* JSON.stringify(x) as it ends up in the text: String.replace turns the
\* undefined that JSON.stringify(undefined) gives into "undefined"
JSONstringify(x) ==
  CASE x.t = "string" -> <<"\"", x.v, "\"">>
    [] x.t = "object" -> <<"{object}">>
    [] x.t = "array" -> <<"[array]">>
    [] OTHER -> <<x.v>>

\* the match of /\{\{\$.+\}\}/ in text: "{{" "$", one character or more, and
\* the LAST "}}" of the text (.+ is greedy); <<0, 0>> when there is none
HolderMatch(text) ==
  LET starts == {p \in DOMAIN text : /\ text[p] = "{{"
                                     /\ p + 1 <= Len(text) /\ text[p + 1] = "$"
                                     /\ \E q \in (p + 3)..Len(text) : text[q] = "}}"}
  IN  IF starts = {} THEN <<0, 0>>
      ELSE LET p == CHOOSE x \in starts : \A y \in starts : x <= y
               q == CHOOSE x \in (p + 3)..Len(text) :
                      text[x] = "}}" /\ \A y \in (x + 1)..Len(text) : text[y] # "}}"
           IN  <<p, q>>

\* replaceHolders(text, data)
replaceHolders(text, d) ==
  LET m == HolderMatch(text)
  IN  IF m[1] = 0 THEN text
      ELSE SubSeq(text, 1, m[1] - 1)
           \o JSONstringify(find(SubSeq(text, m[1] + 2, m[2] - 1), d))
           \o SubSeq(text, m[2] + 1, Len(text))

\* text.replace(/^\$/, '')
StripDollar(q) == IF q # <<>> /\ Head(q) = "$" THEN Tail(q) ELSE q

\* a string whose characters matter (a scope reference), by its tokens
TextVal(q) == [t |-> "text", v |-> "text", k |-> q]

EmptyObj == Obj(<<>>, <<>>)

\* an entry of data.scopes
Scope(ref, dat) == Obj(<<"reference", "data">>, [reference |-> TextVal(ref), data |-> dat])

\* (data.scopes.find(i => i.reference == ref) || { data: {} }).data: the
\* data of the first entry of the array that has the reference
ScopeFind(scopes, ref) ==
  LET hit == {k \in DOMAIN scopes : scopes[k].v.reference.k = ref}
  IN  IF hit = {} THEN EmptyObj ELSE scopes[CHOOSE k \in hit : \A j \in hit : k <= j].v.data

\* data.scopes && data.scopes.length > 0 ? (data.scopes.find(...) || { data: {} }).data : {}
ScopeData(d, ref) ==
  IF d.v.scopes.t = "array" /\ d.v.scopes.v # <<>> THEN ScopeFind(d.v.scopes.v, ref) ELSE EmptyObj

\* getData: dataToSearch
GetDataSearch(d, scope) == IF scope.t = "text" THEN ScopeData(d, scope.k) ELSE d.v.originalData

\* getData(text, data, scope)
getData(text, d, scope) == find(StripDollar(text), GetDataSearch(d, scope))

\* !scope
NoScope(scope) == scope.t \in {"undefined", "null"} \/ (scope.t = "text" /\ scope.k = <<>>)

\* getScopeData searching the scope stack also when no scope is given
ScopeSearchAlways(d, scope) ==
  IF d.v.scopes.t = "array" /\ d.v.scopes.v # <<>>
  THEN ScopeData(d, IF scope.t = "text" THEN StripDollar(scope.k) ELSE d.v.scopes.v[1].v.reference.k)
  ELSE d.v.originalData

\* getScopeData: dataToSearch
ScopeSearch(d, scope) ==
  IF scope.t = "text" /\ scope.k # <<>> THEN ScopeData(d, StripDollar(scope.k)) ELSE d.v.originalData

\* `${scope}`
TemplateText(x) == IF x.t = "text" THEN x.k ELSE <<x.v>>

\* (key || search.replace(/^\$/, '')).toString()
KeyText(search, key) ==
  IF Truthy(key) THEN <<key.v>> ELSE StripDollar(search)

\* new RegExp(`^\\$${scope}`) matches at the start of search: a "$" and the
\* text of the scope; a "$" inside the scope is an end-of-input assertion
\* that nothing can follow, so such a pattern matches nothing
ScopePrefix(search, scope) ==
  LET pat == TemplateText(scope)
  IN  /\ "$" \notin {pat[k] : k \in DOMAIN pat}
      /\ Len(search) >= 1 + Len(pat)
      /\ search[1] = "$"
      /\ SubSeq(search, 2, 1 + Len(pat)) = pat

\* search.replace(new RegExp(`^\\$${scope}`), (key || ...).toString())
SearchPath(search, scope, key) ==
  IF ScopePrefix(search, scope)
  THEN KeyText(search, key) \o SubSeq(search, 2 + Len(TemplateText(scope)), Len(search))
  ELSE search

\* getScopeData(search, data, scope, key)
getScopeData(search, d, scope, key) ==
  IF Len(SplitDot(search)) = 1 /\ NoScope(scope)
  THEN Prop(d.v.originalData, StripDollar(search))
  ELSE find(SearchPath(search, scope, key), ScopeSearch(d, scope))

----------------------------------------------------------------------------
(* The DOM.  Node 1 is the root the dispatcher is called on.  A text node  *)
(* has tag "#text" and its text in attr; a document fragment has tag       *)
(* "#frag".  attr is the control attribute of an element (':'), NoAttr     *)
(* when the element does not carry it.  orig is the node a clone was       *)
(* copied from (a node of the parsed document is its own orig).            *)

NoAttr == <<"#null">>

Node(tag, attr, kids, orig) == [tag |-> tag, attr |-> attr, kids |-> kids, orig |-> orig]

Ids(s) == 1..Len(s)

\* the parent of n, 0 when n is detached
Parent(s, n) ==
  IF \E p \in Ids(s) : n \in Range(s[p].kids)
  THEN CHOOSE p \in Ids(s) : n \in Range(s[p].kids)
  ELSE 0

RECURSIVE Desc(_, _)
\* the descendants of n in document order
Desc(s, n) == Flatten([k \in DOMAIN s[n].kids |-> <<s[n].kids[k]>> \o Desc(s, s[n].kids[k])])

\* n is in the tree below the root
Attached(s, n) == n \in Range(Desc(s, 1))

\* element.getAttribute(':') || 'false'
AttrOrFalse(a) == IF a = NoAttr \/ a = <<>> THEN <<"false">> ELSE a

\* element.ownerDocument: null for a document only
ownerDocument(s, n) == s[n].tag # "#document"

\* node.remove()
RemoveNode(s, n) ==
  LET p == Parent(s, n)
  IN  IF p = 0 THEN s ELSE [s EXCEPT ![p].kids = Without(@, n)]

RECURSIVE RemoveAll(_, _)
RemoveAll(s, ns) == IF ns = <<>> THEN s ELSE RemoveAll(RemoveNode(s, Head(ns)), Tail(ns))

\* element.replaceWith(frag): the children of frag move to the place of n;
\* nothing happens when n has no parent
ReplaceWithFrag(s, n, frag) ==
  LET p == Parent(s, n)
  IN  IF p = 0 THEN s
      ELSE [s EXCEPT ![p].kids = Splice(@, IndexOf(@, n), s[frag].kids),
                     ![frag].kids = <<>>]

RECURSIVE CloneNode(_, _), CloneList(_, _, _)
\* node.cloneNode(true): the store with the copy added, and the copy's id
CloneNode(s, n) ==
  LET r == CloneList(s, s[n].kids, <<>>)
  IN  [s |-> Append(r.s, [s[n] EXCEPT !.kids = r.ids]), id |-> Len(r.s) + 1]
CloneList(s, ks, acc) ==
  IF ks = <<>> THEN [s |-> s, ids |-> acc]
  ELSE LET r == CloneNode(s, Head(ks))
       IN  CloneList(r.s, Tail(ks), Append(acc, r.id))

\* for (child of node.childNodes) frag.appendChild(child.cloneNode(true))
AppendClones(s, frag, n) ==
  LET r == CloneList(s, s[n].kids, <<>>)
  IN  [r.s EXCEPT ![frag].kids = @ \o r.ids]

\* document.createDocumentFragment()
NewFrag(s) == Append(s, Node("#frag", NoAttr, <<>>, 0))

----------------------------------------------------------------------------
(* Asynchronous calls.  A frame is one call: of step ("step": node is the  *)
(* node whose children are scanned and i the position of the scan), of     *)
(* caseBlock ("case") or of each ("each"), with the handler's locals.  A   *)
(* task is a stack of calls each awaited by the one below it.  The last    *)
(* task of cpu is the one that runs; a call that is not awaited (a new     *)
(* task) is pushed on cpu and runs until its first await, where control    *)
(* goes back to the task below.  When cpu is empty the event loop resumes  *)
(* any task.                                                               *)

Frame(k, node, i, frag, nodes, keys, names, val) ==
  [k |-> k, node |-> node, i |-> i, frag |-> frag, nodes |-> nodes, keys |-> keys,
   names |-> names, val |-> val]

StepFrame(node) == Frame("step", node, 1, 0, <<>>, <<>>, <<>>, Undef)

Top(t) == tasks[t].frames[Len(tasks[t].frames)]

Runs(t) ==
  /\ t \in DOMAIN tasks
  /\ tasks[t].frames # <<>>
  /\ IF cpu = <<>> THEN TRUE ELSE cpu[Len(cpu)] = t

\* the task goes on without an await
Hold(t) == cpu' = IF cpu = <<>> THEN <<t>> ELSE cpu

\* the task reaches an await, or its last call returns
Yield(t) == cpu' = IF cpu = <<>> THEN <<>> ELSE SubSeq(cpu, 1, Len(cpu) - 1)

SetTop(fs, f) == [fs EXCEPT ![Len(fs)] = f]

Pop(fs) == SubSeq(fs, 1, Len(fs) - 1)

\* the scan going on from the position it had before the handler ran
RestartKeepsPosition(fs) == fs

\* return await step(root, node, data, mixins): the scan starts again
Restart(fs) == [fs EXCEPT ![Len(fs)].i = 1]

\* the child the scan of task t is at, 0 when the scan is over
Child(t) ==
  LET f == Top(t)
  IN  IF f.k = "step" /\ f.i <= Len(store[f.node].kids) THEN store[f.node].kids[f.i] ELSE 0

\* step with a switch that also removes a plain element
DispatchPlainRemoved(name) ==
  CASE name = "include" -> "includeBlock"
    [] name = "require" -> "requireBlock"
    [] name = "block" -> "block"
    [] name = "if" -> "ifBlock"
    [] name = "case" -> "caseBlock"
    [] name = "each" -> "eachBlock"
    [] name = "for" -> "forBlock"
    [] name = "debug" -> "debugBlock"
    [] name \in {"elif", "else", "div"} -> "remove"
    [] OTHER -> "none"

\* the switch of step on the lower-cased node name.  The second
\* case 'include' (includeMixin) is never taken: the first one wins.
Dispatch(name) ==
  CASE name = "include" -> "includeBlock"
    [] name = "require" -> "requireBlock"
    [] name = "block" -> "block"
    [] name = "if" -> "ifBlock"
    [] name = "case" -> "caseBlock"
    [] name = "each" -> "eachBlock"
    [] name = "for" -> "forBlock"
    [] name = "debug" -> "debugBlock"
    [] name \in {"elif", "else"} -> "remove"
    [] OTHER -> "none"

At(t, handler) == Runs(t) /\ Child(t) # 0 /\ Dispatch(store[Child(t)].tag) = handler

Count(n) == IF n < MaxCalls THEN n + 1 ELSE MaxCalls

NoLast == [el |-> 0, kind |-> "none", changed |-> FALSE, winner |-> 0, base |-> 0, parent |-> 0, pkids |-> <<>>]

Did(el, kind, changed) == [NoLast EXCEPT !.el = el, !.kind = kind, !.changed = changed]

\* a handler that is one synchronous function: step calls it on the child
\* of the scan, awaits it and starts the scan again
Handled(t, kind, s2) ==
  /\ store' = s2
  /\ tasks' = [tasks EXCEPT ![t].frames = Restart(@)]
  /\ last' = Did(Child(t), kind, s2 # store)
  /\ calls' = Count(calls)
  /\ Yield(t)

----------------------------------------------------------------------------
(* step *)

\* a text node, or an element that no case of the switch names and that
\* has no children: the loop goes on
StepSkip(t) ==
  /\ At(t, "none")
  /\ store[Child(t)].kids = <<>>
  /\ tasks' = [tasks EXCEPT ![t].frames = SetTop(@, [Top(t) EXCEPT !.i = @ + 1])]
  /\ Hold(t)
  /\ UNCHANGED <<store, data, context, last, calls, doc0, loaded, ext, lookup, db, srv>>

\* if (child.childNodes.length > 0) await step(root, child, data, mixins)
StepRecurse(t) ==
  /\ At(t, "none")
  /\ store[Child(t)].kids # <<>>
  /\ tasks' = [tasks EXCEPT ![t].frames = Append(@, StepFrame(Child(t)))]
  /\ Hold(t)
  /\ UNCHANGED <<store, data, context, last, calls, doc0, loaded, ext, lookup, db, srv>>

\* the loop of step is over: the call returns and the call that awaits it
\* (the step of the parent, or the each that stepped into a clone) goes on
StepReturn(t) ==
  /\ Runs(t)
  /\ Top(t).k = "step"
  /\ Child(t) = 0
  /\ LET fs == Pop(tasks[t].frames)
     IN  tasks' = [tasks EXCEPT ![t].frames =
                     IF fs # <<>> /\ fs[Len(fs)].k = "step"
                     THEN SetTop(fs, [fs[Len(fs)] EXCEPT !.i = @ + 1])
                     ELSE fs]
  /\ Yield(t)
  /\ UNCHANGED <<store, data, context, last, calls, doc0, loaded, ext, lookup, db, srv>>

\* case 'elif', case 'else': await remove(child)
StepRemove(t) ==
  /\ At(t, "remove")
  /\ Handled(t, "remove", RemoveNode(store, Child(t)))
  /\ UNCHANGED <<data, context, doc0, loaded, ext, lookup, db, srv>>

----------------------------------------------------------------------------
(* caseBlock *)

WhenOrDefault(s, n) == s[n].tag \in {"when", "default"}

\* Array.from(element.querySelectorAll('when, default'))
CaseNodes(s, el) == SelectSeq(Desc(s, el), LAMBDA n : WhenOrDefault(s, n))

\* replaceHolders(element.getAttribute(':') || 'false', data)
CaseValue(s, el, d) == replaceHolders(AttrOrFalse(s[el].attr), d)

\* the test of one node of the loop: a default, or a when whose condition
\* gives the value of the case
CaseTest(s, n, value, d) ==
  \/ s[n].tag = "default"
  \/ replaceHolders(AttrOrFalse(s[n].attr), d) = value

RECURSIVE CaseLoopNoBreak(_, _, _, _)
\* the loop without its break: the last node that passes wins
CaseLoopNoBreak(s, nodes, value, d) ==
  IF nodes = <<>> THEN 0
  ELSE LET later == CaseLoopNoBreak(s, Tail(nodes), value, d)
       IN  IF later # 0 THEN later
           ELSE IF s[Head(nodes)].tag = "default"
                   \/ replaceHolders(AttrOrFalse(s[Head(nodes)].attr), d) = value
                THEN Head(nodes) ELSE 0

RECURSIVE CaseLoop(_, _, _, _)
\* for (let node of nodes): the node at which the loop breaks, 0 when it
\* runs to its end
CaseLoop(s, nodes, value, d) ==
  IF nodes = <<>> THEN 0
  ELSE IF CaseTest(s, Head(nodes), value, d) THEN Head(nodes)
       ELSE CaseLoop(s, Tail(nodes), value, d)

\* the removal without its last line, element.remove()
CaseRemoveNodesOnly(s, nodes, el) == RemoveAll(s, nodes)

\* lines 44-47: the when/default nodes and the element are removed
CaseRemove(s, nodes, el) == RemoveNode(RemoveAll(s, nodes), el)

\* no node of the loop passes its test: nothing is put in the tree
CaseBlockNoMatch(t) ==
  /\ At(t, "caseBlock")
  /\ ownerDocument(store, Child(t))
  /\ LET el == Child(t)
         nodes == CaseNodes(store, el)
     IN  /\ CaseLoop(store, nodes, CaseValue(store, el, data), data) = 0
         /\ store' = CaseRemove(NewFrag(store), nodes, el)
         /\ last' = [Did(el, "caseBlock", TRUE) EXCEPT
                       !.base = Len(store), !.parent = Parent(store, el),
                       !.pkids = store[Parent(store, el)].kids]
  /\ tasks' = [tasks EXCEPT ![t].frames = Restart(@)]
  /\ calls' = Count(calls)
  /\ Yield(t)
  /\ UNCHANGED <<data, context, doc0, loaded, ext, lookup, db, srv>>

\* a node passes: its children are cloned into the fragment, and
\* step(root, frag, data, mixins) is called and NOT awaited: it is a task of
\* its own, which runs now, up to its first await
CaseBlockMatch(t) ==
  /\ At(t, "caseBlock")
  /\ ownerDocument(store, Child(t))
  /\ LET el == Child(t)
         nodes == CaseNodes(store, el)
         w == CaseLoop(store, nodes, CaseValue(store, el, data), data)
         frag == Len(store) + 1
     IN  /\ w # 0
         /\ store' = AppendClones(NewFrag(store), frag, w)
         /\ tasks' = Append([tasks EXCEPT ![t].frames =
                               Append(@, Frame("case", el, 0, frag, nodes, <<>>, <<w>>, Undef))],
                            [frames |-> <<StepFrame(frag)>>, by |-> el])
         /\ cpu' = (IF cpu = <<>> THEN <<t>> ELSE cpu) \o <<Len(tasks) + 1>>
  /\ UNCHANGED <<data, context, last, calls, doc0, loaded, ext, lookup, db, srv>>

\* caseBlock returning with a scope of its own left on data.scopes
CaseBlockFinishScopeLeft(t) ==
  /\ Runs(t)
  /\ Top(t).k = "case"
  /\ LET f == Top(t)
         el == f.node
     IN  /\ store' = CaseRemove(ReplaceWithFrag(store, el, f.frag), f.nodes, el)
         /\ last' = [Did(el, "caseBlock", TRUE) EXCEPT
                       !.winner = f.names[1], !.base = f.frag,
                       !.parent = Parent(store, el),
                       !.pkids = IF Parent(store, el) = 0 THEN <<>>
                                 ELSE store[Parent(store, el)].kids]
  /\ tasks' = [tasks EXCEPT ![t].frames = Restart(Pop(@))]
  /\ calls' = Count(calls)
  /\ data' = Obj(data.k, [data.v EXCEPT !.scopes = Arr(<<Scope(<<"case">>, EmptyObj)>>)])
  /\ Yield(t)
  /\ UNCHANGED <<context, doc0, loaded, ext, lookup, db, srv>>

\* control is back in caseBlock: element.replaceWith(frag), the nodes and
\* the element are removed, caseBlock returns and step starts its scan again
CaseBlockFinish(t) ==
  /\ Runs(t)
  /\ Top(t).k = "case"
  /\ LET f == Top(t)
         el == f.node
     IN  /\ store' = CaseRemove(ReplaceWithFrag(store, el, f.frag), f.nodes, el)
         /\ last' = [Did(el, "caseBlock", TRUE) EXCEPT
                       !.winner = f.names[1], !.base = f.frag,
                       !.parent = Parent(store, el),
                       !.pkids = IF Parent(store, el) = 0 THEN <<>>
                                 ELSE store[Parent(store, el)].kids]
  /\ tasks' = [tasks EXCEPT ![t].frames = Restart(Pop(@))]
  /\ calls' = Count(calls)
  /\ Yield(t)
  /\ UNCHANGED <<data, context, doc0, loaded, ext, lookup, db, srv>>

----------------------------------------------------------------------------
(* each *)

RECURSIVE SplitOn(_, _)
\* String.prototype.split(sep) for a separator that is one token
SplitOn(q, sep) ==
  IF q = <<>> THEN << <<>> >>
  ELSE LET r == SplitOn(Tail(q), sep)
       IN  IF Head(q) = sep THEN << <<>> >> \o r
           ELSE << <<Head(q)>> \o Head(r) >> \o Tail(r)

\* runInContext(expr, context): a name of the context, followed or not by
\* property names; a name the context does not hold, or a property of
\* undefined or null, throws
Eval(expr, ctx) ==
  LET segs == SplitOn(expr, ".")
      base == Head(segs)
  IN  IF base \notin DOMAIN ctx THEN [ok |-> FALSE, v |-> Undef]
      ELSE LET RECURSIVE Walk(_, _)
               Walk(x, rest) ==
                 IF rest = <<>> THEN [ok |-> TRUE, v |-> x]
                 ELSE IF x.t \in {"undefined", "null"} THEN [ok |-> FALSE, v |-> Undef]
                      ELSE Walk(Prop(x, Head(rest)), Tail(rest))
           IN  Walk(ctx[base], Tail(segs))

RECURSIVE JoinComma(_)
\* String(x), the text a value has as the replacement of a placeholder
StringOf(x) ==
  CASE x.t = "array" -> JoinComma(x.v)
    [] x.t = "object" -> <<"[object Object]">>
    [] x.t = "string" -> IF x.v = "" THEN <<>> ELSE <<x.v>>
    [] OTHER -> <<x.v>>
JoinComma(q) ==
  IF q = <<>> THEN <<>>
  ELSE StringOf(Head(q)) \o (IF Tail(q) = <<>> THEN <<>> ELSE <<",">> \o JoinComma(Tail(q)))

\* (full, itm) => { try { return runInContext(itm || '', context) || '' } catch (e) { return full } }
Replacement(full, itm, ctx) ==
  LET r == Eval(itm, ctx)
  IN  IF ~r.ok THEN full ELSE IF Truthy(r.v) THEN StringOf(r.v) ELSE <<>>

RECURSIVE SubstText(_, _)
\* text.replace(/\{\{(.+?)\}\}/g, ...): every "{{", one character or more,
\* and the nearest "}}" after them
SubstText(text, ctx) ==
  LET starts == {p \in DOMAIN text : text[p] = "{{" /\ \E q \in (p + 2)..Len(text) : text[q] = "}}"}
  IN  IF starts = {} THEN text
      ELSE LET p == CHOOSE x \in starts : \A y \in starts : x <= y
               q == CHOOSE x \in (p + 2)..Len(text) :
                      text[x] = "}}" /\ \A y \in (p + 2)..(x - 1) : text[y] # "}}"
           IN  SubSeq(text, 1, p - 1)
               \o Replacement(SubSeq(text, p, q), SubSeq(text, p + 1, q - 1), ctx)
               \o SubstText(SubSeq(text, q + 1, Len(text)), ctx)

RECURSIVE SubstNodes(_, _, _)
SubstNodes(s, ns, ctx) ==
  IF ns = <<>> THEN s
  ELSE SubstNodes([s EXCEPT ![Head(ns)].attr = IF @ = NoAttr THEN @ ELSE SubstText(@, ctx)],
                  Tail(ns), ctx)

RECURSIVE DropEmptyText(_, _)
DropEmptyText(s, ns) ==
  IF ns = <<>> THEN s
  ELSE DropEmptyText([s EXCEPT ![Head(ns)].kids =
                        SelectSeq(@, LAMBDA c : ~(s[c].tag = "#text" /\ s[c].attr = <<>>))],
                     Tail(ns))

\* clone.innerHTML = clone.innerHTML.replace(...): the text and the
\* attributes of every descendant of the clone (not the clone's own tag);
\* a text that becomes empty is no node of the parsed result
SubstInner(s, n, ctx) ==
  LET s2 == SubstNodes(s, Desc(s, n), ctx)
  IN  DropEmptyText(s2, <<n>> \o Desc(s2, n))

\* the substitution each makes in one clone
SubstClone(s, n, ctx) ==
  IF s[n].tag = "#text"
  THEN IF s[n].attr = <<>> THEN s ELSE [s EXCEPT ![n].attr = SubstText(@, ctx)]
  ELSE SubstInner(s, n, ctx)

\* getNext(element): the else that follows the element, if any
NextElementSibling(s, n) ==
  LET p == Parent(s, n)
      after == IF p = 0 THEN <<>>
               ELSE SelectSeq(SubSeq(s[p].kids, IndexOf(s[p].kids, n) + 1, Len(s[p].kids)),
                              LAMBDA c : s[c].tag # "#text")
  IN  IF after = <<>> THEN 0 ELSE Head(after)

ElseNodes(s, el) ==
  LET nx == NextElementSibling(s, el)
  IN  IF nx # 0 /\ s[nx].tag = "else" THEN <<nx>> ELSE <<>>

\* query.split(' in '), destructured into its first two parts
QueryParts(query) ==
  LET parts == SplitOn(query, " in ")
  IN  <<parts[1], IF Len(parts) >= 2 THEN parts[2] ELSE <<>>>>

\* the names <<key, value>> each binds: "[key, value]" or "value"
QueryNames(keys) ==
  IF Len(keys) >= 2 /\ Head(keys) = "[" /\ keys[Len(keys)] = "]"
  THEN LET parts == SplitOn(SubSeq(keys, 2, Len(keys) - 1), ",")
       IN  <<parts[1], IF Len(parts) >= 2 THEN parts[2] ELSE <<"undefined">>>>
  ELSE <<<<>>, keys>>

\* the keys without the first one
KeysOfSkipFirst(x) ==
  CASE x.t = "array" -> [k \in 1..(Len(x.v) - 1) |-> <<Digit(k)>>]
    [] x.t = "object" -> [k \in 1..(Len(x.k) - 1) |-> <<x.k[k + 1]>>]
    [] OTHER -> <<>>

\* for (let i in data): the keys of an array or of an object, in order
KeysOf(x) ==
  CASE x.t = "array" -> [k \in 1..Len(x.v) |-> <<Digit(k - 1)>>]
    [] x.t = "object" -> [k \in 1..Len(x.k) |-> <<x.k[k]>>]
    [] OTHER -> <<>>

\* !data || (Array.isArray(data) && data.length == 0)
EmptyData(x) == ~Truthy(x) \/ (x.t = "array" /\ x.v = <<>>)

\* try { data = runInContext(placeholderData, context) } catch (e) { } with data = null before
EachData(expr, ctx) == LET r == Eval(expr, ctx) IN IF r.ok THEN r.v ELSE Null

\* context[value] = data[i]; if (key) context[key] = i
Bind(ctx, names, coll, key) ==
  LET c1 == [x \in DOMAIN ctx \cup {names[2]} |-> IF x = names[2] THEN Prop(coll, key) ELSE ctx[x]]
  IN  IF names[1] = <<>> THEN c1
      ELSE [x \in DOMAIN c1 \cup {names[1]} |-> IF x = names[1] THEN Str(key[1]) ELSE c1[x]]

EachQuery(s, el) == IF s[el].attr = NoAttr THEN <<>> ELSE s[el].attr

\* no ':' attribute: only the else nodes are removed
EachNoQuery(t) ==
  /\ At(t, "eachBlock")
  /\ ~(EachQuery(store, Child(t)) # <<>> /\ ownerDocument(store, Child(t)))
  /\ Handled(t, "eachBlock", RemoveAll(store, ElseNodes(store, Child(t))))
  /\ UNCHANGED <<data, context, doc0, loaded, ext, lookup, db, srv>>

\* a query without a name or without a collection: element.remove()
EachBadQuery(t) ==
  /\ At(t, "eachBlock")
  /\ EachQuery(store, Child(t)) # <<>> /\ ownerDocument(store, Child(t))
  /\ LET parts == QueryParts(EachQuery(store, Child(t)))
     IN  parts[1] = <<>> \/ parts[2] = <<>>
  /\ Handled(t, "eachBlock", RemoveNode(store, Child(t)))
  /\ UNCHANGED <<data, context, doc0, loaded, ext, lookup, db, srv>>

EachReady(t) ==
  /\ At(t, "eachBlock")
  /\ EachQuery(store, Child(t)) # <<>> /\ ownerDocument(store, Child(t))
  /\ LET parts == QueryParts(EachQuery(store, Child(t)))
     IN  parts[1] # <<>> /\ parts[2] # <<>>

\* empty data and an else: the else is replaced by clones of its children,
\* and each returns
EachElse(t) ==
  /\ EachReady(t)
  /\ LET el == Child(t)
         nodes == ElseNodes(store, el)
         coll == EachData(QueryParts(EachQuery(store, el))[2], context)
         frag2 == Len(store) + 2
     IN  /\ EmptyData(coll) /\ Len(nodes) = 1
         /\ Handled(t, "eachBlock",
                    ReplaceWithFrag(AppendClones(NewFrag(NewFrag(store)), frag2, nodes[1]),
                                    nodes[1], frag2))
  /\ UNCHANGED <<data, context, doc0, loaded, ext, lookup, db, srv>>

\* the loop starts: the first entry, if any, is bound
EachLoop(t) ==
  /\ EachReady(t)
  /\ LET el == Child(t)
         nodes == ElseNodes(store, el)
         parts == QueryParts(EachQuery(store, el))
         names == QueryNames(parts[1])
         coll == EachData(parts[2], context)
         keys == KeysOf(coll)
     IN  /\ ~(EmptyData(coll) /\ Len(nodes) = 1)
         /\ store' = NewFrag(store)
         /\ context' = IF keys = <<>> THEN context ELSE Bind(context, names, coll, Head(keys))
         /\ tasks' = [tasks EXCEPT ![t].frames =
                        Append(@, Frame("each", el, 1, Len(store) + 1, nodes, keys, names, coll))]
  /\ Hold(t)
  /\ UNCHANGED <<data, last, calls, doc0, loaded, ext, lookup, db, srv>>

\* one child of the element for the entry that is bound: clone, substitute,
\* frag.appendChild(clone), await step(context, client, root, clone)
EachChild(t) ==
  /\ Runs(t)
  /\ Top(t).k = "each"
  /\ LET f == Top(t)
     IN  /\ f.keys # <<>>
         /\ f.i <= Len(store[f.node].kids)
         /\ LET r == CloneNode(store, store[f.node].kids[f.i])
                s2 == SubstClone(r.s, r.id, context)
            IN  /\ store' = [s2 EXCEPT ![f.frag].kids = Append(@, r.id)]
                /\ tasks' = [tasks EXCEPT ![t].frames =
                               Append(SetTop(@, [f EXCEPT !.i = @ + 1]), StepFrame(r.id))]
  /\ Hold(t)
  /\ UNCHANGED <<data, context, last, calls, doc0, loaded, ext, lookup, db, srv>>

\* the children are done for this entry: the next entry is bound
EachNext(t) ==
  /\ Runs(t)
  /\ Top(t).k = "each"
  /\ LET f == Top(t)
     IN  /\ Len(f.keys) >= 2
         /\ f.i > Len(store[f.node].kids)
         /\ context' = Bind(context, f.names, f.val, f.keys[2])
         /\ tasks' = [tasks EXCEPT ![t].frames = SetTop(@, [f EXCEPT !.keys = Tail(@), !.i = 1])]
  /\ Hold(t)
  /\ UNCHANGED <<store, data, last, calls, doc0, loaded, ext, lookup, db, srv>>

\* the loop is over: element.replaceWith(frag), the else is removed, each
\* returns and step starts its scan again
EachEnd(t) ==
  /\ Runs(t)
  /\ Top(t).k = "each"
  /\ LET f == Top(t)
     IN  /\ f.keys = <<>> \/ (Len(f.keys) = 1 /\ f.i > Len(store[f.node].kids))
         /\ store' = RemoveAll(ReplaceWithFrag(store, f.node, f.frag), f.nodes)
         /\ last' = Did(f.node, "eachBlock", TRUE)
  /\ tasks' = [tasks EXCEPT ![t].frames = Restart(Pop(@))]
  /\ calls' = Count(calls)
  /\ Yield(t)
  /\ UNCHANGED <<data, context, doc0, loaded, ext, lookup, db, srv>>

----------------------------------------------------------------------------
(* The handlers whose source is not in the repository's files (ifBlock,    *)
(* forBlock, block, includeBlock, requireBlock, debugBlock), after the     *)
(* specification, sections 4.5 and 4.8.  Each is one synchronous function. *)

\* the elements that follow n among its siblings
ElementsAfter(s, n) ==
  LET p == Parent(s, n)
  IN  IF p = 0 THEN <<>>
      ELSE SelectSeq(SubSeq(s[p].kids, IndexOf(s[p].kids, n) + 1, Len(s[p].kids)),
                     LAMBDA c : s[c].tag # "#text")

RECURSIVE TakeRun(_, _)
\* the elif siblings that follow an if, and the else that ends them
TakeRun(s, sibs) ==
  IF sibs = <<>> THEN <<>>
  ELSE IF s[Head(sibs)].tag = "elif" THEN <<Head(sibs)>> \o TakeRun(s, Tail(sibs))
       ELSE IF s[Head(sibs)].tag = "else" THEN <<Head(sibs)>> ELSE <<>>

IfTest(s, n, d) == s[n].tag = "else" \/ replaceHolders(AttrOrFalse(s[n].attr), d) = <<"true">>

\* the store after frag frag, made of clones of the children of w, has
\* taken the place of el
PutClones(s, el, w) ==
  LET frag == Len(s) + 1
  IN  ReplaceWithFrag(AppendClones(NewFrag(s), frag, w), el, frag)

ifBlock(s, el, d) ==
  LET run == <<el>> \o TakeRun(s, ElementsAfter(s, el))
      fired == SelectSeq(run, LAMBDA n : IfTest(s, n, d))
  IN  IF fired = <<>> THEN RemoveAll(s, run)
      ELSE RemoveAll(PutClones(s, el, Head(fired)), run)

ForCount(a) == CASE a = <<"1">> -> 1 [] a = <<"2">> -> 2 [] OTHER -> 0

RECURSIVE CloneTimes(_, _, _, _)
CloneTimes(s, frag, el, n) == IF n = 0 THEN s ELSE CloneTimes(AppendClones(s, frag, el), frag, el, n - 1)

forBlock(s, el) ==
  LET frag == Len(s) + 1
  IN  ReplaceWithFrag(CloneTimes(NewFrag(s), frag, el, ForCount(s[el].attr)), el, frag)

\* a block no child template overrides renders its own content
block(s, el) == PutClones(s, el, el)

\* the fragment a template file is parsed to
FileFragment(s, el) ==
  LET frag == Len(s) + 1
      text == Len(s) + 2
  IN  [Append(NewFrag(s), Node("#text", s[el].attr, <<>>, s[el].orig)) EXCEPT ![frag].kids = <<text>>]

includeBlock(s, el) ==
  IF s[el].attr = NoAttr THEN RemoveNode(s, el)
  ELSE ReplaceWithFrag(FileFragment(s, el), el, Len(s) + 1)

requireBlock(s, el, ld) ==
  IF s[el].attr = NoAttr \/ s[el].attr \in ld THEN RemoveNode(s, el)
  ELSE ReplaceWithFrag(FileFragment(s, el), el, Len(s) + 1)

debugBlock(s, el) == RemoveNode(s, el)

IfBlock(t) ==
  /\ At(t, "ifBlock")
  /\ Handled(t, "ifBlock", ifBlock(store, Child(t), data))
  /\ UNCHANGED <<data, context, doc0, loaded, ext, lookup, db, srv>>

ForBlock(t) ==
  /\ At(t, "forBlock")
  /\ Handled(t, "forBlock", forBlock(store, Child(t)))
  /\ UNCHANGED <<data, context, doc0, loaded, ext, lookup, db, srv>>

Block(t) ==
  /\ At(t, "block")
  /\ Handled(t, "block", block(store, Child(t)))
  /\ UNCHANGED <<data, context, doc0, loaded, ext, lookup, db, srv>>

IncludeBlock(t) ==
  /\ At(t, "includeBlock")
  /\ Handled(t, "includeBlock", includeBlock(store, Child(t)))
  /\ UNCHANGED <<data, context, doc0, loaded, ext, lookup, db, srv>>

RequireBlock(t) ==
  /\ At(t, "requireBlock")
  /\ Handled(t, "requireBlock", requireBlock(store, Child(t), loaded))
  /\ loaded' = IF store[Child(t)].attr = NoAttr THEN loaded ELSE loaded \cup {store[Child(t)].attr}
  /\ UNCHANGED <<data, context, doc0, ext, lookup, db, srv>>

DebugBlock(t) ==
  /\ At(t, "debugBlock")
  /\ Handled(t, "debugBlock", debugBlock(store, Child(t)))
  /\ UNCHANGED <<data, context, doc0, loaded, ext, lookup, db, srv>>

----------------------------------------------------------------------------
(* Documents.  A document is a term [tag, attr, kids]; the dispatcher is   *)
(* started on every document of at most MaxInitNodes nodes below the root  *)
(* whose nodes carry the labels of Labels, and on the documents of Corpus. *)

Term(tag, attr, kids) == [tag |-> tag, attr |-> attr, kids |-> kids]

Text(toks) == Term("#text", toks, <<>>)

Labels ==
  { <<"#text", <<"t">>>>, <<"div", NoAttr>>,
    <<"if", <<"true">>>>, <<"if", <<"false">>>>, <<"elif", <<"true">>>>, <<"else", NoAttr>>,
    <<"case", <<"1">>>>, <<"when", <<"1">>>>, <<"when", <<"2">>>>, <<"default", NoAttr>>,
    <<"each", NoAttr>>, <<"each", <<"v">>>>, <<"each", <<"v", " in ", "xs">>>>,
    <<"each", <<"v", " in ", "none">>>>,
    <<"for", <<"2">>>>, <<"include", <<"part">>>>, <<"require", <<"part">>>>,
    <<"block", NoAttr>>, <<"debug", NoAttr>> }

RECURSIVE Forests(_)
\* the sequences of terms that have n nodes in all
Forests(n) ==
  IF n = 0 THEN {<<>>}
  ELSE UNION { { <<Term(l[1], l[2], f1)>> \o f2 :
                   l \in {x \in Labels : x[1] # "#text" \/ k = 0},
                   f1 \in Forests(k), f2 \in Forests(n - 1 - k) } : k \in 0..(n - 1) }

GenericDocs == { Term("#root", NoAttr, f) : f \in UNION { Forests(n) : n \in 0..MaxInitNodes } }

\* mixins: the names of the mixins registered with the render
Mixins == {<<"card">>}

\* <case :="2"><when :="1">..</when><when :="2">..</when><default>..</default></case>
CaseOf(a, branches) == Term("case", a, branches)
When(a, kids) == Term("when", a, kids)
Default(kids) == Term("default", NoAttr, kids)
Div(kids) == Term("div", NoAttr, kids)
Each(query, kids) == Term("each", query, kids)

Holder(path) == <<"{{", "$">> \o path \o <<"}}">>

Corpus ==
  { Term("#root", NoAttr, f) : f \in
    { \* section 8 of the specification: case equality
      << CaseOf(<<"2">>, << When(<<"1">>, <<Text(<<"one">>)>>),
                            When(<<"2">>, <<Text(<<"two">>)>>),
                            Default(<<Text(<<"dflt">>)>>) >>) >>,
      \* a case whose value comes from the data
      << Text(<<"a">>),
         CaseOf(Holder(<<"originalData", ".", "n">>),
                << When(<<"1">>, <<Text(<<"one">>)>>),
                   When(<<"2">>, <<Div(<<Text(<<"two">>)>>)>>) >>),
         Text(<<"z">>) >>,
      \* no branch of the case matches
      << Text(<<"a">>),
         CaseOf(<<"3">>, << When(<<"1">>, <<Text(<<"one">>)>>),
                            Text(<<"between">>),
                            When(<<"2">>, <<Text(<<"two">>)>>) >>),
         Div(<<>>) >>,
      \* directives nested in the branch that wins
      << CaseOf(<<"1">>, << When(<<"1">>, << Div(<< Term("if", <<"true">>, <<Text(<<"in">>)>>) >>),
                                             Term("if", <<"false">>, <<>>) >>),
                            Default(<<Text(<<"dflt">>)>>) >>) >>,
      \* a case nested in a branch
      << CaseOf(<<"1">>, << When(<<"1">>, << CaseOf(<<"2">>, << When(<<"2">>, <<Text(<<"deep">>)>>) >>) >>),
                            Default(<<Text(<<"dflt">>)>>) >>) >>,
      \* a case nested in a branch that loses, with a when of the outer value
      << CaseOf(<<"2">>, << When(<<"1">>, << CaseOf(<<"2">>, << When(<<"2">>, <<Text(<<"deep">>)>>) >>) >>),
                            Default(<<Text(<<"dflt">>)>>) >>) >>,
      \* branches below a plain element of the case
      << CaseOf(<<"2">>, << Div(<< When(<<"2">>, <<Text(<<"two">>)>>) >>),
                            Default(<<Text(<<"dflt">>)>>) >>) >>,
      \* each over an empty object, with an else
      << Each(<<"v", " in ", "eo">>, <<Text(<<"item">>)>>), Term("else", NoAttr, <<Text(<<"nothing">>)>>) >>,
      \* each over an absent collection, with an else and text around the pair
      << Text(<<"a">>), Each(<<"v", " in ", "missing">>, <<Text(<<"item">>)>>),
         Term("else", NoAttr, <<Text(<<"nothing">>), Div(<<>>)>>), Text(<<"z">>) >>,
      \* each over two entries, two children, an unused else
      << Each(<<"v", " in ", "xs">>, << Text(<<"<", "{{", "v", "}}", ">">>), Div(<<Text(<<"{{", "v", "}}">>)>>) >>),
         Term("else", NoAttr, <<Text(<<"nothing">>)>>), Text(<<"z">>) >>,
      \* each over the entries of an object, with the key bound
      << Each(<<"[", "k", ",", "v", "]", " in ", "ob">>, <<Text(<<"{{", "k", "}}", "=", "{{", "v", "}}">>)>>) >>,
      \* each in the branch of a case that wins
      << CaseOf(<<"1">>, << When(<<"1">>, << Div(<< Each(<<"v", " in ", "xs">>, <<Text(<<"{{", "v", "}}">>)>>) >>) >>) >>) >>,
      \* a case without the ':' attribute: a default, and a when without one
      << Text(<<"a">>), CaseOf(NoAttr, << Default(<<Text(<<"dflt">>)>>) >>), Text(<<"z">>) >>,
      << CaseOf(NoAttr, << When(<<"1">>, <<Text(<<"one">>)>>), When(NoAttr, <<Text(<<"bare">>)>>) >>) >>,
      \* an each whose body holds an expression that throws
      << Each(<<"v", " in ", "xs">>, <<Text(<<"{{", "v", "}}", ":", "{{", "nope", "}}">>)>>) >>,
      \* the invocation of a registered mixin
      << Text(<<"a">>), Term("include", <<"card">>, <<>>) >>,
      \* an each in an each: the inner one binds a name of its own, the name
      \* of the outer one, and a name that an earlier each has bound
      << Each(<<"v", " in ", "xs">>, << Each(<<"w", " in ", "ob">>, <<Text(<<"{{", "w", "}}">>)>>) >>) >>,
      << Each(<<"v", " in ", "xs">>, << Each(<<"v", " in ", "ob">>, <<Text(<<"{{", "v", "}}">>)>>) >>) >>,
      << Each(<<"w", " in ", "xs">>, <<Text(<<"i">>)>>),
         Each(<<"v", " in ", "xs">>, << Each(<<"w", " in ", "ob">>, <<Text(<<"{{", "w", "}}">>)>>) >>) >>
    } }

Docs == GenericDocs \cup Corpus

RECURSIVE AddTerm(_, _), AddTerms(_, _, _)
\* the store with the nodes of a term added, the term's own node first
AddTerm(s, term) ==
  LET id == Len(s) + 1
      r == AddTerms(Append(s, Node(term.tag, term.attr, <<>>, id)), term.kids, <<>>)
  IN  [s |-> [r.s EXCEPT ![id].kids = r.ids], id |-> id]
AddTerms(s, terms, acc) ==
  IF terms = <<>> THEN [s |-> s, ids |-> acc]
  ELSE LET r == AddTerm(s, Head(terms))
       IN  AddTerms(r.s, Tail(terms), Append(acc, r.id))

ToStore(doc) == AddTerm(<<>>, doc).s

\* the data of the render
OriginalData == Obj(<<"n", "s">>, [n |-> Num("2"), s |-> Str("2")])

TemplateData == Obj(<<"originalData", "scopes">>, [originalData |-> OriginalData, scopes |-> Arr(<<>>)])

Context0 ==
  [x \in {<<"xs">>, <<"none">>, <<"n">>, <<"eo">>, <<"ob">>} |->
     CASE x = <<"xs">> -> Arr(<<Str("a"), Str("b")>>)
       [] x = <<"none">> -> Arr(<<>>)
       [] x = <<"eo">> -> Obj(<<>>, <<>>)
       [] x = <<"ob">> -> Obj(<<"p", "q">>, [p |-> Str("x"), q |-> Num("7")])
       [] OTHER -> Num("2")]

ExtIdle == [pc |-> "idle"]

\* no DB object is in use
NoDB == [op |-> "none"]

\* no server is listening
NoServer == [op |-> "none"]

\* no lookup helper has been called
NoLookup == [op |-> "none", text |-> <<>>, scope |-> Undef, key |-> Undef, searched |-> Undef, result |-> Undef]

----------------------------------------------------------------------------
(* The dispatcher, called once on the root of a document *)

Init ==
  /\ store \in {ToStore(doc) : doc \in Docs}
  /\ tasks = << [frames |-> <<StepFrame(1)>>, by |-> 0] >>
  /\ cpu = <<>>
  /\ data = TemplateData
  /\ context = Context0
  /\ last = NoLast
  /\ calls = 0
  /\ doc0 = store
  /\ loaded = {}
  /\ ext = ExtIdle
  /\ lookup = NoLookup
  /\ db = NoDB
  /\ srv = NoServer

Next ==
  \/ \E t \in DOMAIN tasks : StepSkip(t)
  \/ \E t \in DOMAIN tasks : StepRecurse(t)
  \/ \E t \in DOMAIN tasks : StepReturn(t)
  \/ \E t \in DOMAIN tasks : StepRemove(t)
  \/ \E t \in DOMAIN tasks : CaseBlockNoMatch(t)
  \/ \E t \in DOMAIN tasks : CaseBlockMatch(t)
  \/ \E t \in DOMAIN tasks : CaseBlockFinish(t)
  \/ \E t \in DOMAIN tasks : EachNoQuery(t)
  \/ \E t \in DOMAIN tasks : EachBadQuery(t)
  \/ \E t \in DOMAIN tasks : EachElse(t)
  \/ \E t \in DOMAIN tasks : EachLoop(t)
  \/ \E t \in DOMAIN tasks : EachChild(t)
  \/ \E t \in DOMAIN tasks : EachNext(t)
  \/ \E t \in DOMAIN tasks : EachEnd(t)
  \/ \E t \in DOMAIN tasks : IfBlock(t)
  \/ \E t \in DOMAIN tasks : ForBlock(t)
  \/ \E t \in DOMAIN tasks : Block(t)
  \/ \E t \in DOMAIN tasks : IncludeBlock(t)
  \/ \E t \in DOMAIN tasks : RequireBlock(t)
  \/ \E t \in DOMAIN tasks : DebugBlock(t)

Spec == Init /\ [][Next]_vars

----------------------------------------------------------------------------
(* extend: the resolver of the extends chain.  A Template is a record of   *)
(* its document (the root node of its tree in the store), its file and the *)
(* template that extended it; ext.tpls holds the templates in the order of *)
(* their creation.  Every call of extend is a record of ext.calls:         *)
(* the template it was called for, where it stands, the file it waits for, *)
(* what it returned, the call that made it (0: the caller of the resolver) *)
(* and whether its load failed.                                            *)

Template(document, file, child) == [document |-> document, file |-> file, child |-> child]

NoFile == Term("#nofile", NoAttr, <<>>)

\* inclFileName + (!inclFileName.endsWith('.rtpl') ? '.rtpl' : '')
ResolveFile(name) == IF name[Len(name)] = ".rtpl" THEN name ELSE Append(name, ".rtpl")

\* document.querySelector(':scope > extends'): 0 when there is none
ScopeChildExtends(s, root) ==
  LET hit == {k \in DOMAIN s[root].kids : s[s[root].kids[k]].tag = "extends"}
  IN  IF hit = {} THEN 0 ELSE s[root].kids[CHOOSE k \in hit : \A j \in hit : k <= j]

\* the extends elements of a tree, in document order
ExtendsIn(s, root) == SelectSeq(Desc(s, root), LAMBDA n : s[n].tag = "extends")

\* parent.document.querySelector('extends'): 0 when there is none
QueryExtends(s, root) == IF ExtendsIn(s, root) = <<>> THEN 0 ELSE ExtendsIn(s, root)[1]

\* ext.replaceWith(tpl.document): the root of the child's tree takes the
\* place of ext, with everything below it
ReplaceWithNode(s, n, m) ==
  LET p == Parent(s, n)
  IN  IF p = 0 THEN s ELSE [RemoveNode(s, m) EXCEPT ![p].kids = Splice(@, IndexOf(@, n), <<m>>)]

ExtCall(tpl, pc, file, ret, by, miss) ==
  [tpl |-> tpl, pc |-> pc, file |-> file, ret |-> ret, by |-> by, miss |-> miss]

\* extend(tpl) up to its first await or its return
ExtendCall(s, tpls, i, by) ==
  LET item == ScopeChildExtends(s, tpls[i].document)
  IN  IF item = 0 THEN ExtCall(i, "returned", <<>>, i, by, FALSE)
      ELSE IF s[item].attr # NoAttr /\ s[item].attr # <<>> /\ Parent(s, item) # 0
           THEN ExtCall(i, "loading", ResolveFile(s[item].attr), 0, by, FALSE)
           ELSE ExtCall(i, "returned", <<>>, i, by, FALSE)

Loading(c) == c \in DOMAIN ext.calls /\ ext.calls[c].pc = "loading"

StepVars == <<tasks, cpu, data, context, last, calls, doc0, lookup, db, srv>>

\* the resolver is called for the template of the rendered file
Extend ==
  /\ ext.calls = <<>>
  /\ ext' = [ext EXCEPT !.calls = <<ExtendCall(store, ext.tpls, 1, 0)>>]
  /\ UNCHANGED <<store, loaded, StepVars>>

\* parseFile has given the parent: lines 1061-1069
ExtendResume(c) ==
  /\ Loading(c)
  /\ ext.files[ext.calls[c].file] # NoFile
  /\ LET r == AddTerm(store, ext.files[ext.calls[c].file])
         p == Len(ext.tpls) + 1
         tpls == Append(ext.tpls, Template(r.id, ext.calls[c].file, ext.calls[c].tpl))
         e == QueryExtends(r.s, r.id)
         splice == IF e = 0 THEN FALSE ELSE Parent(r.s, e) # 0
         s2 == IF splice THEN ReplaceWithNode(r.s, e, ext.tpls[ext.calls[c].tpl].document) ELSE r.s
         done == [ext.calls EXCEPT ![c].pc = "returned", ![c].ret = p]
     IN  /\ store' = s2
         /\ ext' = [ext EXCEPT !.tpls = tpls,
                               !.calls = IF splice THEN Append(done, ExtendCall(s2, tpls, p, c)) ELSE done]
  /\ UNCHANGED <<loaded, StepVars>>

\* parseFile has given nothing: the test of line 1061 fails, line 1073
ExtendFallThrough(c) ==
  /\ Loading(c)
  /\ ext.files[ext.calls[c].file] = NoFile
  /\ ext' = [ext EXCEPT !.calls[c].pc = "returned", !.calls[c].ret = ext.calls[c].tpl,
                        !.calls[c].miss = TRUE]
  /\ UNCHANGED <<store, loaded, StepVars>>

\* parseFile has failed: the await of line 1059 throws and extend rejects
ExtendReject(c) ==
  /\ Loading(c)
  /\ ext.files[ext.calls[c].file] = NoFile
  /\ ext' = [ext EXCEPT !.calls[c].pc = "rejected", !.calls[c].miss = TRUE]
  /\ UNCHANGED <<store, loaded, StepVars>>

(* The files: the rendered file A, which B and C may extend no further     *)
(* than the missing X, so that every chain ends.                           *)

FileA == <<"A", ".rtpl">>
FileB == <<"B", ".rtpl">>
FileC == <<"C", ".rtpl">>
FileX == <<"X", ".rtpl">>

Extends(file) == Term("extends", file, <<>>)

TplLabels ==
  { <<"#text", <<"t">>>>, <<"div", NoAttr>>, <<"extends", NoAttr>>,
    <<"extends", <<"C">>>>, <<"extends", <<"X">>>> }

RECURSIVE TplForests(_)
TplForests(n) ==
  IF n = 0 THEN {<<>>}
  ELSE UNION { { <<Term(l[1], l[2], f1)>> \o f2 :
                   l \in {x \in TplLabels : x[1] = "div" \/ k = 0},
                   f1 \in TplForests(k), f2 \in TplForests(n - 1 - k) } : k \in 0..(n - 1) }

FilesA ==
  { Term("#root", NoAttr, <<Extends(<<"B">>), Text(<<"a">>)>>),
    Term("#root", NoAttr, <<Text(<<"a">>), Extends(<<"B", ".rtpl">>)>>),
    Term("#root", NoAttr, <<Extends(NoAttr), Text(<<"a">>)>>),
    Term("#root", NoAttr, <<Div(<<Extends(<<"B">>)>>)>>) }

FilesB == { Term("#root", NoAttr, f) : f \in UNION { TplForests(n) : n \in 0..MaxTplNodes } } \cup {NoFile}

FilesC ==
  { Term("#root", NoAttr, <<>>),
    Term("#root", NoAttr, <<Text(<<"c">>), Extends(NoAttr)>>),
    Term("#root", NoAttr, <<Div(<<Extends(NoAttr)>>)>>),
    Term("#root", NoAttr, <<Div(<<Extends(NoAttr)>>), Extends(<<"X">>)>>),
    NoFile }

InitExtend ==
  /\ \E a \in FilesA : \E b \in FilesB : \E c \in FilesC :
       /\ store = ToStore(a)
       /\ ext = [files |-> [f \in {FileA, FileB, FileC, FileX} |->
                              CASE f = FileA -> a [] f = FileB -> b [] f = FileC -> c [] OTHER -> NoFile],
                 tpls |-> <<Template(1, FileA, 0)>>,
                 calls |-> <<>>]
  /\ loaded = {}
  /\ tasks = <<>>
  /\ cpu = <<>>
  /\ data = TemplateData
  /\ context = Context0
  /\ last = NoLast
  /\ calls = 0
  /\ doc0 = store
  /\ lookup = NoLookup
  /\ db = NoDB
  /\ srv = NoServer

NextExtend ==
  \/ Extend
  \/ \E c \in DOMAIN ext.calls : ExtendResume(c)
  \/ \E c \in DOMAIN ext.calls : ExtendFallThrough(c)
  \/ \E c \in DOMAIN ext.calls : ExtendReject(c)

SpecExtend == InitExtend /\ [][NextExtend]_vars

----------------------------------------------------------------------------
(* replaceVariables *)

RECURSIVE HolderSpans(_, _)
\* the matches of /\{\{.+?\}\}/g from position from on, each by its first
\* and last position: a "{{", one character or more, and the nearest "}}"
HolderSpans(text, from) ==
  LET starts == {p \in from..Len(text) :
                   text[p] = "{{" /\ \E q \in (p + 2)..Len(text) : text[q] = "}}"}
  IN  IF starts = {} THEN <<>>
      ELSE LET p == CHOOSE x \in starts : \A y \in starts : x <= y
               q == CHOOSE x \in (p + 2)..Len(text) :
                      text[x] = "}}" /\ \A y \in (p + 2)..(x - 1) : text[y] # "}}"
           IN  << <<p, q>> >> \o HolderSpans(text, q + 1)

\* i.replace(/^\{\{\$|\}\}$/g, '')
HolderKey(m) ==
  LET a == IF Len(m) >= 2 /\ m[1] = "{{" /\ m[2] = "$" THEN SubSeq(m, 3, Len(m)) ELSE m
  IN  IF a # <<>> /\ a[Len(a)] = "}}" THEN SubSeq(a, 1, Len(a) - 1) ELSE a

RECURSIVE Unique(_)
\* [...new Set(q)]
Unique(q) == IF q = <<>> THEN <<>> ELSE <<Head(q)>> \o Unique(Without(Tail(q), Head(q)))

\* getVariableStrings(string)
getVariableStrings(text) ==
  LET spans == HolderSpans(text, 1)
  IN  Unique([k \in DOMAIN spans |-> HolderKey(SubSeq(text, spans[k][1], spans[k][2]))])

\* getStringInfo: the entry of one key
StringInfo(key, d) ==
  LET breadcrumb == SplitDot(key)
      scope == IF Len(breadcrumb) > 1 THEN TextVal(breadcrumb[1]) ELSE Null
  IN  [key |-> key, data |-> getScopeData(key, d, scope, Undef)]

\* getStringInfo(string, data)
getStringInfo(text, d) ==
  LET keys == getVariableStrings(text)
  IN  [k \in DOMAIN keys |-> StringInfo(keys[k], d)]

\* the tokens that are runs of word characters (\w)
WordTokens ==
  {"a", "b", "c", "x", "s", "t", "q", "z", "e", "f", "nl", "p", "originalData", "scopes",
   "length"}

\* (?![^\<]*\>) at position q: no ">" follows before a "<" does
NotInTag(text, q) ==
  ~\E r \in q..Len(text) : text[r] = ">" /\ \A j \in q..(r - 1) : text[j] # "<"

\* where the match of variableMatch(key) that starts at p ends, 0 if none
\* starts there: "{{", "$", the key between word boundaries, any of [.\w],
\* and a "}}" that is not inside a tag
KeyMatchEnd(text, p, key) ==
  LET after == p + 2 + Len(key)
      ends == {q \in after..Len(text) :
                 /\ text[q] = "}}"
                 /\ \A j \in after..(q - 1) : text[j] \in WordTokens \cup {"."}
                 /\ NotInTag(text, q)}
  IN  IF /\ key # <<>>
         /\ key[1] \in WordTokens
         /\ after <= Len(text)
         /\ text[p] = "{{"
         /\ text[p + 1] = "$"
         /\ SubSeq(text, p + 2, after - 1) = key
         /\ ends # {}
      THEN CHOOSE q \in ends : TRUE
      ELSE 0

RECURSIVE ReplaceKey(_, _, _, _)
\* string.replace(variableMatch(key), value) from position from on: the
\* pattern is global, every match is replaced
ReplaceKey(text, from, key, value) ==
  LET hits == {p \in from..Len(text) : KeyMatchEnd(text, p, key) # 0}
  IN  IF hits = {} THEN SubSeq(text, from, Len(text))
      ELSE LET p == CHOOSE x \in hits : \A y \in hits : x <= y
           IN  SubSeq(text, from, p - 1) \o value
                 \o ReplaceKey(text, KeyMatchEnd(text, p, key) + 1, key, value)

RECURSIVE ReplaceInfos(_, _)
\* getStringInfo(string, data).forEach(i => string = string.replace(variableMatch(i.key), i.data))
ReplaceInfos(text, infos) ==
  IF infos = <<>> THEN text
  ELSE ReplaceInfos(ReplaceKey(text, 1, Head(infos).key, StringOf(Head(infos).data)),
                    Tail(infos))

\* replaceVariables(string, data)
replaceVariables(text, d) == ReplaceInfos(text, getStringInfo(text, d))

----------------------------------------------------------------------------
(* The lookup helpers are pure functions of their arguments.  Their        *)
(* specification draws a TemplateData from a bounded set and then makes     *)
(* one call of one helper, with arguments drawn from small sets; the call,  *)
(* the object it searched and its result are recorded in lookup.            *)

\* the originalData of a lookup: values that are falsy, nested and missing
LookupOriginal ==
  { Obj(<<"a", "z", "e", "f", "nl", "x">>,
        [a |-> Obj(<<"b">>, [b |-> Num("1")]), z |-> Num("0"), e |-> Str(""),
         f |-> Bool("false"), nl |-> Null, x |-> Str("o")]),
    Obj(<<"a", "x", "s">>,
        [a |-> Obj(<<"b">>, [b |-> Num("5")]), x |-> Str("p"),
         s |-> Obj(<<"x">>, [x |-> Num("6")])]) }

\* the scopes a stack is made of: two with the same reference, and one
\* whose reference keeps its "$"
ScopePool ==
  { Scope(<<"s">>, Obj(<<"x", "a">>, [x |-> Num("1"), a |-> Obj(<<"b">>, [b |-> Num("9")])])),
    Scope(<<"s">>, Obj(<<"x">>, [x |-> Num("2")])),
    Scope(<<"t">>, Obj(<<"x">>, [x |-> Num("3")])),
    Scope(<<"$", "s">>, Obj(<<"x">>, [x |-> Num("4")])) }

RECURSIVE Stacks(_)
\* the scope stacks of n scopes, first pushed first
Stacks(n) ==
  IF n = 0 THEN {<<>>} ELSE {Append(q, sc) : q \in Stacks(n - 1), sc \in ScopePool}

LookupData ==
  { Obj(<<"originalData", "scopes">>, [originalData |-> od, scopes |-> sc]) :
      od \in LookupOriginal,
      sc \in {Arr(q) : q \in UNION {Stacks(n) : n \in 0..MaxScopes}} }

LookupPaths ==
  { <<"x">>, <<"$", "x">>, <<"a", ".", "b">>, <<"$", "a", ".", "b">>, <<"a", ".", "c">>,
    <<"z", ".", "b">>, <<"e", ".", "b">>, <<"f", ".", "b">>, <<"nl", ".", "b">>,
    <<"q", ".", "b">>, <<"$", "s", ".", "x">>, <<"$", "s">>, <<"$", "t", ".", "x">> }

LookupScopes ==
  { Undef, Null, TextVal(<<>>), TextVal(<<"s">>), TextVal(<<"$", "s">>), TextVal(<<"t">>),
    TextVal(<<"u">>) }

LookupKeys == {Undef, Str("x"), Num("0")}

\* texts of one line with no, one, two and three placeholders
LookupTexts ==
  { <<"plain">>,
    <<"{{", "a", "}}">>,
    <<"x ", "{{", "$", "originalData", ".", "x", "}}", " y">>,
    <<"{{", "$", "originalData", ".", "q", "}}">>,
    <<"{{", "$", "originalData", ".", "x", "}}", " and ",
      "{{", "$", "originalData", ".", "a", ".", "b", "}}">>,
    <<"<", "{{", "$", "originalData", ".", "x", "}}", "|",
      "{{", "$", "originalData", ".", "a", ".", "b", "}}", "|",
      "{{", "$", "scopes", ".", "length", "}}", ">">> }

\* the record of a call
Called(op, text, scope, key, searched, result) ==
  [op |-> op, text |-> text, scope |-> scope, key |-> key, searched |-> searched, result |-> result]

\* a call find(path, data.originalData)
FindCall ==
  /\ lookup.op = "none"
  /\ \E path \in LookupPaths :
       lookup' = Called("find", path, Undef, Undef, data.v.originalData,
                        find(path, data.v.originalData))
  /\ UNCHANGED <<store, tasks, cpu, data, context, last, calls, doc0, loaded, ext, db, srv>>

\* a call getData(text, data, scope)
GetDataCall ==
  /\ lookup.op = "none"
  /\ \E text \in LookupPaths, scope \in LookupScopes \ {Null} :
       lookup' = Called("getData", text, scope, Undef, GetDataSearch(data, scope),
                        getData(text, data, scope))
  /\ UNCHANGED <<store, tasks, cpu, data, context, last, calls, doc0, loaded, ext, db, srv>>

\* a call getScopeData(search, data, scope, key)
GetScopeDataCall ==
  /\ lookup.op = "none"
  /\ \E search \in LookupPaths, scope \in LookupScopes, key \in LookupKeys :
       lookup' = Called("getScopeData", search, scope, key, ScopeSearch(data, scope),
                        getScopeData(search, data, scope, key))
  /\ UNCHANGED <<store, tasks, cpu, data, context, last, calls, doc0, loaded, ext, db, srv>>

\* a call replaceHolders(text, data)
ReplaceHoldersCall ==
  /\ lookup.op = "none"
  /\ \E text \in LookupTexts :
       lookup' = Called("replaceHolders", text, Undef, Undef, data, replaceHolders(text, data))
  /\ UNCHANGED <<store, tasks, cpu, data, context, last, calls, doc0, loaded, ext, db, srv>>

\* texts with placeholders of one segment and of a dotted path, in text and
\* inside a tag
VariableTexts ==
  { <<"plain">>,
    <<"{{", "$", "x", "}}">>,
    <<"{{", "$", "a", ".", "b", "}}">>,
    <<"hi ", "{{", "$", "a", ".", "b", "}}", "!">>,
    <<"{{", "$", "s", ".", "x", "}}">>,
    <<"{{", "$", "a", ".", "b", "}}", " ", "{{", "$", "x", "}}", " ",
      "{{", "$", "a", ".", "b", "}}">>,
    <<"<", "p", " ", "{{", "$", "x", "}}", ">", "{{", "$", "t", ".", "x", "}}">> }

\* a call replaceVariables(string, data)
ReplaceVariablesCall ==
  /\ lookup.op = "none"
  /\ \E text \in VariableTexts :
       lookup' = Called("replaceVariables", text, Undef, Undef, data,
                        replaceVariables(text, data))
  /\ UNCHANGED <<store, tasks, cpu, data, context, last, calls, doc0, loaded, ext, db, srv>>

InitLookup ==
  /\ store = ToStore(Term("root", NoAttr, <<>>))
  /\ tasks = <<>>
  /\ cpu = <<>>
  /\ data \in LookupData
  /\ context = Context0
  /\ last = NoLast
  /\ calls = 0
  /\ doc0 = store
  /\ loaded = {}
  /\ ext = ExtIdle
  /\ lookup = NoLookup
  /\ db = NoDB
  /\ srv = NoServer

NextLookup ==
  \/ FindCall
  \/ GetDataCall
  \/ GetScopeDataCall
  \/ ReplaceHoldersCall
  \/ ReplaceVariablesCall

SpecLookup == InitLookup /\ [][NextLookup]_vars

----------------------------------------------------------------------------
(* DB: the query builder.  _queryInfo is a QueryInfo, of which the source  *)
(* holds the calls only: addSet appends to the list of set clauses and      *)
(* addDuplicateKeyUpdate to the list of "on duplicate key update" clauses.  *)

\* the builder calls made on one DB object are at most this many
MaxBuild == 2

\* new DBKeyVal(column, comp, value)
DBKeyVal(column, comp, value) == [column |-> column, comp |-> comp, value |-> value, type |-> "and"]

\* new QueryInfo
QueryInfo == [sets |-> <<>>, dups |-> <<>>]

\* this._queryInfo.addSet(kv)
addSet(q, kv) == [q EXCEPT !.sets = Append(@, kv)]

\* this._queryInfo.addDuplicateKeyUpdate(kv)
addDuplicateKeyUpdate(q, kv) == [q EXCEPT !.dups = Append(@, kv)]

RECURSIVE ForEachEntry(_, _, _, _)
\* Object.entries(data).forEach(i => add(new DBKeyVal(i[0], '=', i[1]))),
\* add being addSet (toSets) or addDuplicateKeyUpdate
ForEachEntry(q, obj, ks, toSets) ==
  IF ks = <<>> THEN q
  ELSE LET kv == DBKeyVal(Head(ks), "=", obj.v[Head(ks)])
       IN  ForEachEntry(IF toSets THEN addSet(q, kv) ELSE addDuplicateKeyUpdate(q, kv),
                        obj, Tail(ks), toSets)

\* DB.set(...args)
set(q, args) ==
  IF Len(args) = 1 /\ args[1].t = "object" THEN ForEachEntry(q, args[1], args[1].k, TRUE)
  ELSE IF Len(args) = 2 THEN addDuplicateKeyUpdate(q, DBKeyVal(args[1].v, "=", args[2]))
  ELSE q

\* DB.duplicateKey(...args)
duplicateKey(q, args) ==
  IF Len(args) = 1 /\ args[1].t = "object" THEN ForEachEntry(q, args[1], args[1].k, FALSE)
  ELSE IF Len(args) = 2 THEN addDuplicateKeyUpdate(q, DBKeyVal(args[1].v, "=", args[2]))
  ELSE q

\* the arguments of a builder call: (column, value), (data) and (column)
BuildArgs ==
  {<<Str(c), v>> : c \in {"a", "b"}, v \in {Num("1"), Str("x")}}
  \cup { <<Obj(<<"a">>, [a |-> Num("1")])>>,
         <<Obj(<<"b", "a">>, [b |-> Str("x"), a |-> Num("2")])>>,
         <<Obj(<<>>, <<>>)>>,
         <<Str("a")>> }

\* DB.table(name): a DB object with a new QueryInfo
DBTable == [op |-> "build", q |-> QueryInfo, m |-> "table", args |-> <<>>, n |-> 0]

\* db.set(...)
DBSet ==
  /\ db.op = "build" /\ db.n < MaxBuild
  /\ \E args \in BuildArgs :
       db' = [db EXCEPT !.q = set(@, args), !.m = "set", !.args = args, !.n = @ + 1]
  /\ UNCHANGED <<RenderVars, srv>>

\* db.duplicateKey(...)
DBDuplicateKey ==
  /\ db.op = "build" /\ db.n < MaxBuild
  /\ \E args \in BuildArgs :
       db' = [db EXCEPT !.q = duplicateKey(@, args), !.m = "duplicateKey", !.args = args, !.n = @ + 1]
  /\ UNCHANGED <<RenderVars, srv>>

----------------------------------------------------------------------------
(* DB.transaction.  The connection answers the commands sent on it one by  *)
(* one, in the order they were sent (queue); an answer runs the callback    *)
(* the command was sent with.  cb is what the callback of the transaction   *)
(* still has to do: "query" is await db.query(...), "fire" is db.query(...) *)
(* that is not awaited, "commit" is await db.commit(), "throw" is a throw.  *)
(* An answer to a commit is a success or an error, and on an error commit   *)
(* sends a rollback.  events is the log of what has happened.               *)

\* the callback of a transaction does at most this many things
MaxCb == 2

RECURSIVE Scripts(_)
Scripts(n) ==
  IF n = 0 THEN {<<>>}
  ELSE {<<x>> \o q : x \in {"query", "fire", "commit", "throw"}, q \in Scripts(n - 1)}

\* DB.transaction(callback) is called: let db = new DB
DBTransaction(cb) ==
  [op |-> "tx", pc |-> "start", cb |-> cb, connection |-> FALSE, isTransaction |-> FALSE,
   queue |-> <<>>, releases |-> 0, events |-> <<>>]

\* the callback of connection.query that releases the connection in a
\* transaction too
QueryCallbackReleases(d) ==
  [d EXCEPT !.releases = @ + 1,
            !.events = @ \o <<"queryRelease", "queryDone">>,
            !.pc = IF @ = "awaitQuery" THEN "callback" ELSE @]

\* the callback of connection.query in DB.query:
\* if (!this._isTransaction) connection.release(); resolve(results)
QueryCallback(d) ==
  [d EXCEPT !.releases = IF d.isTransaction THEN @ ELSE @ + 1,
            !.events = @ \o (IF d.isTransaction THEN <<>> ELSE <<"queryRelease">>) \o <<"queryDone">>,
            !.pc = IF @ = "awaitQuery" THEN "callback" ELSE @]

\* let connection = await db._getConnection(); db._isTransaction = true;
\* connection.beginTransaction(...)
TxAcquire ==
  /\ db.op = "tx" /\ db.pc = "start"
  /\ db' = [db EXCEPT !.connection = TRUE, !.isTransaction = TRUE, !.queue = <<"begin">>,
                      !.events = Append(@, "acquired"), !.pc = "begin"]
  /\ UNCHANGED <<RenderVars, srv>>

\* the transaction has begun: the callback of beginTransaction starts the
\* callback of the transaction
TxBegun ==
  /\ db.op = "tx" /\ db.queue # <<>> /\ Head(db.queue) = "begin"
  /\ db' = [db EXCEPT !.queue = Tail(@), !.events = Append(@, "begun"), !.pc = "callback"]
  /\ UNCHANGED <<RenderVars, srv>>

\* the callback of the transaction goes on: a query, awaited or not, or a
\* commit of its own
TxCallback ==
  /\ db.op = "tx" /\ db.pc = "callback" /\ db.cb # <<>> /\ Head(db.cb) # "throw"
  /\ db' = [db EXCEPT !.cb = Tail(@),
                      !.queue = Append(@, IF Head(db.cb) = "commit" THEN "commit" ELSE "query"),
                      !.events = IF Head(db.cb) = "commit" THEN Append(@, "ownCommit") ELSE @,
                      !.pc = CASE Head(db.cb) = "query" -> "awaitQuery"
                               [] Head(db.cb) = "commit" -> "awaitOwnCommit"
                               [] OTHER -> "callback"]
  /\ UNCHANGED <<RenderVars, srv>>

\* the callback of the transaction throws: await callback(db) rejects in the
\* async callback of beginTransaction, whose promise nobody holds
TxCallbackThrows ==
  /\ db.op = "tx" /\ db.pc = "callback" /\ db.cb # <<>> /\ Head(db.cb) = "throw"
  /\ db' = [db EXCEPT !.cb = <<>>, !.events = Append(@, "threw"), !.pc = "rejected"]
  /\ UNCHANGED <<RenderVars, srv>>

\* a query is answered
TxQueryAnswered ==
  /\ db.op = "tx" /\ db.queue # <<>> /\ Head(db.queue) = "query"
  /\ db' = [QueryCallback(db) EXCEPT !.queue = Tail(@)]
  /\ UNCHANGED <<RenderVars, srv>>

\* await callback(db) is over: await db.commit()
TxCommit ==
  /\ db.op = "tx" /\ db.pc = "callback" /\ db.cb = <<>>
  /\ db' = [db EXCEPT !.queue = Append(@, "commit"),
                      !.events = @ \o <<"callback", "commit">>, !.pc = "awaitCommit"]
  /\ UNCHANGED <<RenderVars, srv>>

\* commit is resolved: the commit of transaction goes on to its last
\* lines, a commit of the callback goes on with the callback
CommitResolved(pc) ==
  CASE pc = "awaitCommit" -> "finish"
    [] pc = "awaitOwnCommit" -> "callback"
    [] OTHER -> pc

\* this._connection.commit(async err => { ...; resolve() }) is answered
\* without an error
TxCommitted ==
  /\ db.op = "tx" /\ db.queue # <<>> /\ Head(db.queue) = "commit"
  /\ db' = [db EXCEPT !.queue = Tail(@),
                      !.events = IF db.pc = "awaitCommit" THEN Append(@, "committed") ELSE @,
                      !.pc = CommitResolved(@)]
  /\ UNCHANGED <<RenderVars, srv>>

\* the commit is answered with an error: if (err) await this.rollback()
TxCommitFailed ==
  /\ db.op = "tx" /\ db.queue # <<>> /\ Head(db.queue) = "commit"
  /\ db' = [db EXCEPT !.queue = Append(Tail(@), "rollback"),
                      !.events = Append(@, "commitFailed")]
  /\ UNCHANGED <<RenderVars, srv>>

\* this._connection.rollback(() => resolve()) is answered, and commit resolves
TxRolledBack ==
  /\ db.op = "tx" /\ db.queue # <<>> /\ Head(db.queue) = "rollback"
  /\ db' = [db EXCEPT !.queue = Tail(@),
                      !.events = Append(@, "rolledBack"),
                      !.pc = CommitResolved(@)]
  /\ UNCHANGED <<RenderVars, srv>>

\* db._isTransaction = false; connection.release(); resolve()
TxFinish ==
  /\ db.op = "tx" /\ db.pc = "finish"
  /\ db' = [db EXCEPT !.isTransaction = FALSE, !.releases = @ + 1,
                      !.events = @ \o <<"released", "resolved">>, !.pc = "done"]
  /\ UNCHANGED <<RenderVars, srv>>

----------------------------------------------------------------------------
(* DB.query on one instance.  The pool hands out the connections 1, 2, ...; *)
(* out holds those that were handed out and not released.  The queries of   *)
(* the instance are made one after the other, each awaited (get after       *)
(* count, two get calls).  sent is the log of connection.query: the         *)
(* connection, and whether the instance held it at that time.               *)

\* one instance makes at most this many queries
MaxQueries == 2

\* new DB, with n queries to make
DBQueries(n) ==
  [op |-> "queries", pc |-> "start", left |-> n, connection |-> 0, isTransaction |-> FALSE,
   out |-> {}, made |-> 0, sent |-> <<>>, releases |-> 0, events |-> <<>>]

\* _getConnection: this._connection = connection; resolve(connection)
getConnection(d) ==
  [d EXCEPT !.connection = d.made + 1, !.made = @ + 1, !.out = @ \cup {d.made + 1}]

\* DB.query: !this._connection ? await this._getConnection() : this._connection
QueryConnect ==
  /\ db.op = "queries" /\ db.pc = "start" /\ db.left > 0
  /\ db.connection = 0
  /\ db' = [getConnection(db) EXCEPT !.pc = "connected"]
  /\ UNCHANGED <<RenderVars, srv>>

\* connection.query(query, replacements, callback)
QuerySend ==
  /\ db.op = "queries" /\ db.left > 0
  /\ \/ db.pc = "connected"
     \/ db.pc = "start" /\ db.connection # 0
  /\ db' = [db EXCEPT !.sent = Append(@, [connection |-> db.connection,
                                          held |-> db.connection \in db.out]),
                      !.pc = "awaitQuery"]
  /\ UNCHANGED <<RenderVars, srv>>

\* the query is answered.  The release of a connection that the pool has
\* back already either throws in the callback, and the promise of query is
\* never settled, or takes the connection from whoever the pool gave it to.
QueryAnswered ==
  /\ db.op = "queries" /\ db.pc = "awaitQuery"
  /\ \E threw \in BOOLEAN :
       db' = IF threw /\ ~db.isTransaction /\ db.connection \notin db.out
             THEN [db EXCEPT !.pc = "stuck"]
             ELSE [QueryCallback(db) EXCEPT
                     !.out = IF db.isTransaction THEN @ ELSE @ \ {db.connection},
                     !.left = @ - 1,
                     !.pc = IF db.left = 1 THEN "done" ELSE "start"]
  /\ UNCHANGED <<RenderVars, srv>>

----------------------------------------------------------------------------
(* DB.paginate.  The table holds the rows 1..rows, which the select of the  *)
(* query returns in this order; it does not change during the call.  sent   *)
(* lists the offset the builder holds at each query the call issues.        *)

\* the table has at most this many rows
MaxRows == 3

\* parseInt((x || 0).toString()) || undefined, for undefined or an integer
StoredNumber(x) == IF x = <<>> \/ x[1] = 0 THEN <<>> ELSE x

\* DB.limit(limit)
DBLimit(d, x) == [d EXCEPT !.limit = StoredNumber(x)]

\* DB.offset(offset)
DBOffset(d, x) == [d EXCEPT !.offset = StoredNumber(x)]

\* Math.ceil(total / resultsPerPage), rounded down
PageCountFloor(total, resultsPerPage) == total \div resultsPerPage

\* Math.ceil(total / resultsPerPage)
PageCount(total, resultsPerPage) == (total + resultsPerPage - 1) \div resultsPerPage

\* page < 1 ? 1 : page, for page and for resultsPerPage
AtLeastOne(n) == IF n < 1 THEN 1 ELSE n

\* the rows a select with limit and offset gives; the limit is not 0, and
\* offset(0) stores undefined, which is no offset
Select(rows, limit, offset) ==
  [k \in 1..(IF rows - offset < limit THEN (IF rows < offset THEN 0 ELSE rows - offset) ELSE limit)
     |-> offset + k]

\* calcFoundRows(): { results, total }
calcFoundRows(rows, limit, offset) == [results |-> Select(rows, limit, offset), total |-> rows]

\* db.paginate(page, resultsPerPage, enablePageRecalculation) is called
DBPaginate(rows, page, resultsPerPage, recalc) ==
  [op |-> "paginate", pc |-> "start", rows |-> rows, asked |-> page, recalc |-> recalc,
   page |-> AtLeastOne(page), resultsPerPage |-> AtLeastOne(resultsPerPage),
   offset |-> 0, info |-> [results |-> <<>>, total |-> 0], sent |-> <<>>,
   ret |-> [page |-> 0]]

\* let offset = (page - 1) * resultsPerPage;
\* let info = await this.limit(resultsPerPage).offset(offset).calcFoundRows()
PaginateQuery ==
  /\ db.op = "paginate" /\ db.pc = "start"
  /\ LET offset == (db.page - 1) * db.resultsPerPage
     IN  db' = [db EXCEPT !.offset = offset,
                          !.sent = Append(@, StoredNumber(<<offset>>)),
                          !.info = calcFoundRows(db.rows, db.resultsPerPage, offset),
                          !.pc = "queried"]
  /\ UNCHANGED <<RenderVars, srv>>

\* the page is larger than the page count: the query is run again.  With
\* no rows the offset is below 0: the select then gives no rows, or fails
PaginateRerun ==
  /\ db.op = "paginate" /\ db.pc = "queried"
  /\ db.recalc /\ db.page > PageCount(db.info.total, db.resultsPerPage)
  /\ LET page == PageCount(db.info.total, db.resultsPerPage)
         offset == (PageCount(db.info.total, db.resultsPerPage) - 1) * db.resultsPerPage
     IN  IF offset >= 0
         THEN db' = [db EXCEPT !.page = page, !.offset = offset,
                               !.sent = Append(@, StoredNumber(<<offset>>)),
                               !.info = calcFoundRows(db.rows, db.resultsPerPage, offset),
                               !.pc = "ready"]
         ELSE \E failed \in BOOLEAN :
                db' = [db EXCEPT !.page = page, !.offset = offset,
                                 !.sent = Append(@, StoredNumber(<<offset>>)),
                                 !.info = [results |-> <<>>, total |-> db.rows],
                                 !.pc = IF failed THEN "raised" ELSE "ready"]
  /\ UNCHANGED <<RenderVars, srv>>

\* the page is not larger than the page count, or is not to be recalculated
PaginateKeep ==
  /\ db.op = "paginate" /\ db.pc = "queried"
  /\ ~(db.recalc /\ db.page > PageCount(db.info.total, db.resultsPerPage))
  /\ db' = [db EXCEPT !.pc = "ready"]
  /\ UNCHANGED <<RenderVars, srv>>

\* let pages = Math.ceil(info.total / resultsPerPage); return { ... }
PaginateReturn ==
  /\ db.op = "paginate" /\ db.pc = "ready"
  /\ LET pages == PageCount(db.info.total, db.resultsPerPage)
         n == Len(db.info.results)
     IN  db' = [db EXCEPT
                  !.pc = "returned",
                  !.ret = [results |-> db.info.results, count |-> n, total |-> db.info.total,
                           pages |-> pages, page |-> db.page,
                           offset |-> IF db.offset < 0 THEN 0 ELSE db.offset,
                           range |-> [start |-> IF db.offset + 1 < 0 THEN 0 ELSE db.offset + 1,
                                      end |-> IF db.offset + n < 0 THEN 0 ELSE db.offset + n],
                           lastPage |-> pages = db.page,
                           firstPage |-> db.page = 1]]
  /\ UNCHANGED <<RenderVars, srv>>

----------------------------------------------------------------------------
(* DB.first.  The limit and the offset of the builder are <<>> when they    *)
(* are undefined and <<n>> when they are the number n.  The query matches   *)
(* the rows 1..rows of the table.                                           *)

\* the limits and offsets a builder can have been given
StoredNumbers == {StoredNumber(x) : x \in {<<>>} \cup {<<n>> : n \in 0..MaxRows}}

\* db.first() is called on a builder with a limit and an offset
DBFirst(rows, lim, off) ==
  [op |-> "first", pc |-> "start", rows |-> rows, limit |-> lim, offset |-> off,
   limit0 |-> lim, offset0 |-> off, s |-> <<>>, sl |-> <<>>, got |-> <<>>, ret |-> <<>>]

\* let s = this._queryInfo.limit, sl = this._queryInfo.offset;
\* let rows = await this.limit(1).offset(0).get()
FirstGet ==
  /\ db.op = "first" /\ db.pc = "start"
  /\ db' = [DBOffset(DBLimit(db, <<1>>), <<0>>) EXCEPT
              !.s = db.limit, !.sl = db.offset,
              !.got = Select(db.rows, 1, 0), !.pc = "got"]
  /\ UNCHANGED <<RenderVars, srv>>

\* if (rows.length == 0) return null
FirstNone ==
  /\ db.op = "first" /\ db.pc = "got"
  /\ Len(db.got) = 0
  /\ db' = [db EXCEPT !.ret = <<>>, !.pc = "returned"]
  /\ UNCHANGED <<RenderVars, srv>>

\* this.limit(s).offset(sl); return rows[0]
FirstRow ==
  /\ db.op = "first" /\ db.pc = "got"
  /\ Len(db.got) # 0
  /\ db' = [DBOffset(DBLimit(db, db.s), db.sl) EXCEPT !.ret = <<db.got[1]>>, !.pc = "returned"]
  /\ UNCHANGED <<RenderVars, srv>>

----------------------------------------------------------------------------
(* DB.chunk.  The query streams the rows 1..n of its result as 'result'    *)
(* events and then an 'end' event; a paused connection emits no event.      *)
(* Every event runs its handler up to the await of the callback; waiting    *)
(* holds the handlers that await a callback, and got the collections the    *)
(* callback was called with.                                                *)

\* the largest chunk size given to chunk
MaxChunk == 2

\* let rows = (args.length == 2 ? args[0] : 10)
DefaultChunk == 10

\* the chunk size of chunk(...args), args without the callback
ChunkRows(args) == IF Len(args) = 1 THEN args[1] ELSE DefaultChunk

\* db.chunk(...args) is called on a query that has n result rows
DBChunk(n, args) ==
  [op |-> "chunk", rows |-> ChunkRows(args), n |-> n, pending |-> [k \in 1..n |-> k],
   ended |-> FALSE, paused |-> FALSE, collection |-> <<>>, waiting |-> <<>>, got |-> <<>>,
   resolved |-> FALSE]

\* sendResults that does not pause the connection
sendResultsNoPause(d, handler) ==
  [d EXCEPT !.got = Append(@, d.collection), !.waiting = Append(@, handler)]

\* sendResults() up to its await: connection.pause(); await callback(collection)
sendResults(d, handler) ==
  [d EXCEPT !.paused = TRUE, !.got = Append(@, d.collection), !.waiting = Append(@, handler)]

\* .on('result', ...): collection.add(row); collection.length == rows && await sendResults()
ChunkResult ==
  /\ db.op = "chunk" /\ ~db.paused /\ db.pending # <<>>
  /\ LET d == [db EXCEPT !.pending = Tail(@), !.collection = Append(@, Head(db.pending))]
     IN  db' = IF Len(d.collection) = d.rows THEN sendResults(d, "result") ELSE d
  /\ UNCHANGED <<RenderVars, srv>>

\* .on('end', ...): collection.length > 0 && await sendResults(); resolve()
ChunkEnd ==
  /\ db.op = "chunk" /\ ~db.paused /\ db.pending = <<>> /\ ~db.ended
  /\ LET d == [db EXCEPT !.ended = TRUE]
     IN  db' = IF Len(d.collection) > 0 THEN sendResults(d, "end") ELSE [d EXCEPT !.resolved = TRUE]
  /\ UNCHANGED <<RenderVars, srv>>

\* a callback is over: collection = new Collection; connection.resume();
\* the 'end' handler then resolves the promise
ChunkCallbackDone ==
  /\ db.op = "chunk"
  /\ \E i \in DOMAIN db.waiting :
       db' = [db EXCEPT !.waiting = SubSeq(@, 1, i - 1) \o SubSeq(@, i + 1, Len(@)),
                        !.collection = <<>>, !.paused = FALSE,
                        !.resolved = @ \/ db.waiting[i] = "end"]
  /\ UNCHANGED <<RenderVars, srv>>

\* no template is being rendered
RenderIdle ==
  /\ store = ToStore(Term("root", NoAttr, <<>>))
  /\ tasks = <<>>
  /\ cpu = <<>>
  /\ data = TemplateData
  /\ context = Context0
  /\ last = NoLast
  /\ calls = 0
  /\ doc0 = store
  /\ loaded = {}
  /\ ext = ExtIdle
  /\ lookup = NoLookup

InitDB ==
  /\ RenderIdle
  /\ db \in {DBTable}
           \cup {DBTransaction(cb) : cb \in UNION {Scripts(n) : n \in 0..MaxCb}}
           \cup {DBPaginate(rows, page, resultsPerPage, recalc) :
                   rows \in 0..MaxRows, page \in 0..(MaxRows + 2), resultsPerPage \in 0..2,
                   recalc \in BOOLEAN}
           \cup {DBChunk(n, args) : n \in 0..MaxRows, args \in {<<>>} \cup {<<r>> : r \in 1..MaxChunk}}
           \cup {DBQueries(n) : n \in 1..MaxQueries}
           \cup {DBFirst(rows, lim, off) :
                   rows \in 0..MaxRows, lim \in StoredNumbers, off \in StoredNumbers}
  /\ srv = NoServer

NextDB ==
  \/ DBSet
  \/ DBDuplicateKey
  \/ TxAcquire
  \/ TxBegun
  \/ TxCallback
  \/ TxCallbackThrows
  \/ TxQueryAnswered
  \/ TxCommit
  \/ TxCommitted
  \/ TxCommitFailed
  \/ TxRolledBack
  \/ TxFinish
  \/ PaginateQuery
  \/ PaginateRerun
  \/ PaginateKeep
  \/ PaginateReturn
  \/ ChunkResult
  \/ ChunkEnd
  \/ ChunkCallbackDone
  \/ QueryConnect
  \/ QuerySend
  \/ QueryAnswered
  \/ FirstGet
  \/ FirstNone
  \/ FirstRow

SpecDB == InitDB /\ [][NextDB]_vars

----------------------------------------------------------------------------
(* Server.request and Server.send: one request, from the moment the http
   server calls request(req, res) to the moment the promise of request is
   settled.  The client's identity is 1; a client of another request that is
   still being served is 0. *)

Methods == {"get", "post", "head", "options"}

\* http.ServerResponse before anything was written
NoHead == [written |-> FALSE, implicit |-> FALSE, code |-> 0, headers |-> <<>>]

Res0 == [head |-> NoHead, body |-> <<>>, ended |-> FALSE]

\* what a new Client answers with until somebody sets it
Response0 ==
  [code |-> 200, cookies |-> <<>>, headers |-> <<>>, body |-> "", kind |-> "body",
   large |-> FALSE]

\* res.writeHead(code, headers)
writeHead(res, code, headers) ==
  [res EXCEPT !.head = [written |-> TRUE, implicit |-> FALSE, code |-> code,
                         headers |-> headers]]

\* the head node sends when the first write or end comes without writeHead:
\* res.statusCode, 200 unless set, and the headers of res.setHeader, none here
ImplicitHead(res) ==
  IF res.head.written THEN res
  ELSE [res EXCEPT !.head = [written |-> TRUE, implicit |-> TRUE, code |-> 200,
                              headers |-> <<>>]]

\* res.write(chunk)
write(res, chunk) == [ImplicitHead(res) EXCEPT !.body = Append(@, chunk)]

\* res.end()
end(res) == [ImplicitHead(res) EXCEPT !.ended = TRUE]

\* response.setHeader(name, value): headers is an object, one value per name
setHeader(response, name, value) ==
  [response EXCEPT !.headers =
     SelectSeq(@, LAMBDA h : h[1] # name) \o << <<name, value>> >>]

\* getErrorPage(client, code): client.response.setCode(code).setBody(content)
getErrorPage(response, code) ==
  [response EXCEPT !.code = code, !.body = "error page"]

\* the part of send that changes the response: the range answer for a large
\* content, and the content type of a file
SendPrepare(response) ==
  LET ranged == IF response.large
                THEN setHeader([response EXCEPT !.code = 206], "Content-Range", "bytes")
                ELSE response
  IN  IF ranged.kind = "file" THEN setHeader(ranged, "Content-Type", "mime") ELSE ranged

\* the headers send collects: a Set-Cookie for each cookie, then the headers
SendHeaders(response) ==
  [i \in 1..Len(response.cookies) |-> <<"Set-Cookie", response.cookies[i]>>]
    \o response.headers

\* send(client, req, res); failed: Template.render threw.  The stream of a
\* file is taken as one step: opened, piped and closed.
send(s, failed) ==
  LET response == SendPrepare(s.response)
      headers == SendHeaders(response)
  IN  IF s.method \in {"head", "options"}
      THEN [s EXCEPT !.response = response, !.res = end(@)]
      ELSE IF response.kind = "file"
      THEN [s EXCEPT !.response = response,
                     !.res = end(write(writeHead(@, response.code, headers), "file"))]
      ELSE LET rendered == IF response.kind = "template" /\ failed
                           THEN getErrorPage(response, 500)
                           ELSE response
               responseBody == IF response.kind = "template" /\ ~failed THEN "rendered"
                               ELSE IF response.kind = "buffer" THEN "buffer"
                               ELSE rendered.body
           IN  [s EXCEPT !.response = rendered,
                         !.res = end(write(writeHead(@, rendered.code, headers),
                                           responseBody))]

\* request(req, res) is about to be called
ServerIdle(others, method, isFile) ==
  [op |-> "request", pc |-> "start", clients |-> others, method |-> method,
   isFile |-> isFile, response |-> Response0, res |-> Res0, resp |-> FALSE,
   late |-> FALSE, path |-> "none"]

\* what a controller or a middleware can have set on client.response
Responses ==
  {[Response0 EXCEPT !.code = code, !.cookies = cookies, !.headers = headers,
                     !.kind = kind, !.body = "page", !.large = large] :
     code \in {200, 404}, cookies \in {<<>>, <<"sid">>},
     headers \in {<<>>, << <<"X-A", "1">> >>},
     kind \in {"body", "template", "buffer"}, large \in BOOLEAN}

\* const client = new Client(req); this._clients.push(client)
ReqStart ==
  /\ srv.op = "request" /\ srv.pc = "start"
  /\ srv' = [srv EXCEPT !.clients = Append(@, 1), !.pc = "body"]
  /\ UNCHANGED <<RenderVars, db>>

\* the body of the request has come: 'end' or 'error'
ReqBody ==
  /\ srv.op = "request" /\ srv.pc = "body"
  /\ srv' = [srv EXCEPT !.pc = "init"]
  /\ UNCHANGED <<RenderVars, db>>

\* await client.init(); client.setBody(body)
ReqInit ==
  /\ srv.op = "request" /\ srv.pc = "init"
  /\ \E threw \in BOOLEAN :
       srv' = [srv EXCEPT !.pc = IF threw THEN "catch" ELSE "public",
                          !.path = IF threw THEN "exception" ELSE @]
  /\ UNCHANGED <<RenderVars, db>>

\* the file of the public folder: setFile, return await this.send(...)
ReqPublic ==
  /\ srv.op = "request" /\ srv.pc = "public"
  /\ \E large \in BOOLEAN :
       srv' = IF srv.isFile
              THEN [send([srv EXCEPT !.response.kind = "file", !.response.large = large],
                         FALSE)
                      EXCEPT !.pc = "done", !.path = "public file"]
              ELSE [srv EXCEPT !.pc = "route"]
  /\ UNCHANGED <<RenderVars, db>>

\* const routeInfo = await Router.route(urlInfo, client.method)
ReqRoute ==
  /\ srv.op = "request" /\ srv.pc = "route"
  /\ \E outcome \in {"route", "no route", "exception"} :
       srv' = [srv EXCEPT !.pc = CASE outcome = "route" -> "pre"
                                   [] outcome = "no route" -> "send"
                                   [] OTHER -> "catch",
                          !.path = IF outcome = "route" THEN @ ELSE outcome]
  /\ UNCHANGED <<RenderVars, db>>

\* _runMiddleware: the middleware answered something else than true or a
\* Response; send is called and not awaited
Rejected(s) ==
  [s EXCEPT !.response = getErrorPage(@, 400), !.late = TRUE, !.pc = "done",
            !.path = "middleware rejection"]

\* if (!await this._runMiddleware(routeInfo, client, req, res, 'pre')) return
ReqPre ==
  /\ srv.op = "request" /\ srv.pc = "pre"
  /\ \E passed \in BOOLEAN :
       srv' = IF passed THEN [srv EXCEPT !.pc = "controller"] ELSE Rejected(srv)
  /\ UNCHANGED <<RenderVars, db>>

\* resp = await routeInfo.callback(client)
ReqController ==
  /\ srv.op = "request" /\ srv.pc = "controller"
  /\ \E response \in Responses, resp \in BOOLEAN, threw \in BOOLEAN :
       srv' = IF threw
              THEN [srv EXCEPT !.pc = "catch", !.path = "exception"]
              ELSE [srv EXCEPT !.response = response, !.resp = resp, !.pc = "post"]
  /\ UNCHANGED <<RenderVars, db>>

\* if (!await this._runMiddleware(routeInfo, client, req, res, 'post')) return
ReqPost ==
  /\ srv.op = "request" /\ srv.pc = "post"
  /\ \E passed \in BOOLEAN :
       srv' = IF passed THEN [srv EXCEPT !.pc = "send", !.path = "route handled"]
              ELSE Rejected(srv)
  /\ UNCHANGED <<RenderVars, db>>

\* !resp && await this.getErrorPage(client, 400); await this.send(...)
ReqSend ==
  /\ srv.op = "request" /\ srv.pc = "send"
  /\ \E failed \in BOOLEAN :
       srv' = [send([srv EXCEPT !.response = IF srv.resp THEN @ ELSE getErrorPage(@, 400)],
                    failed)
                 EXCEPT !.pc = "remove"]
  /\ UNCHANGED <<RenderVars, db>>

\* catch (e): getErrorPage(client, 500), send, log.error
ReqCatch ==
  /\ srv.op = "request" /\ srv.pc = "catch"
  /\ \E failed \in BOOLEAN :
       srv' = [send([srv EXCEPT !.response = getErrorPage(@, 500)], failed)
                 EXCEPT !.pc = "remove"]
  /\ UNCHANGED <<RenderVars, db>>

\* let idx = this._clients.indexOf(client); idx > -1 && this._clients.splice(idx, 1)
ReqRemove ==
  /\ srv.op = "request" /\ srv.pc = "remove"
  /\ srv' = [srv EXCEPT !.clients = Without(@, 1), !.pc = "done"]
  /\ UNCHANGED <<RenderVars, db>>

\* the send that _runMiddleware did not await
SendLate ==
  /\ srv.op = "request" /\ srv.late
  /\ \E failed \in BOOLEAN :
       srv' = [send(srv, failed) EXCEPT !.late = FALSE]
  /\ UNCHANGED <<RenderVars, db>>

InitServer ==
  /\ RenderIdle
  /\ db = NoDB
  /\ srv \in {ServerIdle(others, method, isFile) :
                others \in {<<>>, <<0>>}, method \in Methods, isFile \in BOOLEAN}

NextServer ==
  \/ ReqStart
  \/ ReqBody
  \/ ReqInit
  \/ ReqPublic
  \/ ReqRoute
  \/ ReqPre
  \/ ReqController
  \/ ReqPost
  \/ ReqSend
  \/ ReqCatch
  \/ ReqRemove
  \/ SendLate

SpecServer == InitServer /\ [][NextServer]_vars

----------------------------------------------------------------------------
(* What the claims are stated with *)

\* step(root, node, ...) has returned to its caller
MainDone == tasks[1].frames = <<>>

DirectiveNames ==
  {"if", "case", "each", "for", "include", "require", "block", "elif", "else",
   "when", "default", "debug"}

DirectiveFree(s) == \A n \in Range(Desc(s, 1)) : s[n].tag \notin DirectiveNames

\* the value a ':' attribute has after substitution; an absent one reads 'false'
SubstAttr(s, n) == replaceHolders(AttrOrFalse(s[n].attr), data)

\* the branches of a case: its when and default descendants, in document order
BranchesOf(s, el) == SelectSeq(Desc(s, el), LAMBDA n : s[n].tag = "when" \/ s[n].tag = "default")

BranchMatches(s, el, b) == s[b].tag = "default" \/ SubstAttr(s, b) = SubstAttr(s, el)

\* the first branch in document order that matches, 0 when none does
FirstBranch(s, el) ==
  LET bs == BranchesOf(s, el)
      hit == {k \in DOMAIN bs : BranchMatches(s, el, bs[k])}
  IN  IF hit = {} THEN 0 ELSE bs[CHOOSE k \in hit : \A j \in hit : k <= j]

RECURSIVE SameTree(_, _, _)
\* b is a copy of a: the same tags, attributes and origins, child by child
SameTree(s, a, b) ==
  /\ s[a].tag = s[b].tag /\ s[a].attr = s[b].attr /\ s[a].orig = s[b].orig
  /\ Len(s[a].kids) = Len(s[b].kids)
  /\ \A k \in DOMAIN s[a].kids : SameTree(s, s[a].kids[k], s[b].kids[k])

\* caseBlock returns to step in this step, for element last'.el
CaseReturns == last'.kind = "caseBlock" /\ last'.el # last.el

----------------------------------------------------------------------------
(* C1 *)

\* C1: after step has returned for the root, the tree below the root holds
\* no element whose tag is a directive name.
C1_NoDirectiveAfterStep == MainDone => DirectiveFree(store)

(* C2 *)

\* C2: step terminates because every handler invocation consumes the tag it
\* was called for: once a handler has returned, the restart scan does not
\* find the same tag, still in the tree, in a tree the handler left
\* unchanged (from such a state the scan meets the tag again, for ever).
C2_HandlerConsumesTag == last.el # 0 => (~Attached(store, last.el) \/ last.changed)

(* C3 *)

\* C3: on a tree without directive tags step invokes no handler and leaves
\* the tree as it was, at every point of the walk and when it has returned.
C3_DirectiveFreeIsNoOp == DirectiveFree(doc0) => (store = doc0 /\ calls = 0 /\ last = NoLast)

\* step has walked a directive-free tree with a nested element, and returned
C3_Witness ==
  /\ MainDone
  /\ DirectiveFree(doc0)
  /\ \E n \in Range(Desc(doc0, 1)) : doc0[n].kids # <<>>

(* C8 *)

\* C8: the step that caseBlock starts on the fragment is over when caseBlock
\* returns: a step of a fragment that is not over belongs to a caseBlock
\* that is still running.
C8_FragmentStepDoneAtReturn ==
  \A u \in DOMAIN tasks :
    (tasks[u].by # 0 /\ tasks[u].frames # <<>>) =>
      \E t \in DOMAIN tasks : \E k \in DOMAIN tasks[t].frames :
        tasks[t].frames[k].k = "case" /\ tasks[t].frames[k].node = tasks[u].by

(* C9 *)

\* the fragment of a caseBlock that has just cloned its branch, before the
\* step on the fragment has done anything
FreshFragment(t, u) ==
  /\ tasks[t].frames # <<>> /\ Top(t).k = "case"
  /\ tasks[u].frames = <<StepFrame(Top(t).frag)>>
  /\ cpu # <<>> /\ cpu[Len(cpu)] = u

\* C9: caseBlock renders exactly one branch, the first one in document
\* order that matches (a default always does, a when if its substituted ':'
\* equals the substituted ':' of the case): the fragment is a copy of that
\* branch's children, and when caseBlock returns the case and its branches
\* are out of the tree and every node that came into the tree is a copy of a
\* node of that branch.
C9_FirstMatchingBranchOnly ==
  /\ [](\A t \in DOMAIN tasks : \A u \in DOMAIN tasks :
          FreshFragment(t, u) =>
            LET w == FirstBranch(store, Top(t).node)
                ks == store[Top(t).frag].kids
            IN  /\ w # 0
                /\ Len(ks) = Len(store[w].kids)
                /\ \A k \in DOMAIN ks : SameTree(store, store[w].kids[k], ks[k]))
  /\ [][(CaseReturns /\ FirstBranch(store, last'.el) # 0) =>
          LET el == last'.el
              w == FirstBranch(store, el)
              from == {store[d].orig : d \in Range(Desc(store, w))}
          IN  /\ last'.winner = w
              /\ ~Attached(store', el)
              /\ \A b \in Range(BranchesOf(store, el)) : ~Attached(store', b)
              /\ \A n \in Ids(store') :
                   (Attached(store', n) /\ (n > Len(store) \/ ~Attached(store, n)))
                     => store'[n].orig \in from]_vars

\* the example of the specification: case 2 with when 1, when 2 and a
\* default has rendered the when 2 branch, and nothing else
C9_Witness ==
  /\ doc0 = ToStore(Term("#root", NoAttr,
              << CaseOf(<<"2">>, << When(<<"1">>, <<Text(<<"one">>)>>),
                                    When(<<"2">>, <<Text(<<"two">>)>>),
                                    Default(<<Text(<<"dflt">>)>>) >>) >>))
  /\ MainDone
  /\ last.kind = "caseBlock" /\ last.winner = 5
  /\ Len(store[1].kids) = 1
  /\ store[store[1].kids[1]].attr = <<"two">>

(* C10 *)

\* C10: when no when matches and there is no default, caseBlock takes the
\* whole case element out of the tree and puts nothing in: the tree after
\* it is the tree before it without the case.
C10_NoMatchRemovesCase ==
  [][(CaseReturns /\ FirstBranch(store, last'.el) = 0) =>
       LET el == last'.el
           p == Parent(store, el)
       IN  /\ ~Attached(store', el)
           /\ store'[p].kids = Without(store[p].kids, el)
           /\ \A n \in Ids(store') : Attached(store', n) => (n \in Ids(store) /\ Attached(store, n))
           /\ \A n \in Ids(store) : (Attached(store, n) /\ n \notin Range(Desc(store, el)) /\ n # el /\ n # p)
                                      => (Attached(store', n) /\ store'[n] = store[n])]_vars

\* a case with when branches, none of which matched, has been removed
C10_Witness ==
  /\ last.kind = "caseBlock" /\ last.winner = 0
  /\ ~Attached(store, last.el)
  /\ last.el \in Ids(doc0)
  /\ \E b \in Range(Desc(doc0, last.el)) : doc0[b].tag = "when"

----------------------------------------------------------------------------
(* C4 - C7 *)

\* the promise of the resolver's call has resolved
ExtendResolved == ext.calls # <<>> /\ ext.calls[1].pc = "returned"

\* the file a template file extends: the file of its first extends child
LinkOf(term) ==
  LET hit == {k \in DOMAIN term.kids : term.kids[k].tag = "extends"}
      first == term.kids[CHOOSE k \in hit : \A j \in hit : k <= j]
  IN  IF term = NoFile \/ hit = {} THEN <<>>
      ELSE IF first.attr = NoAttr THEN <<>> ELSE ResolveFile(first.attr)

\* A extends B, B extends C and C extends nothing
ChainABC ==
  /\ LinkOf(ext.files[FileA]) = FileB
  /\ LinkOf(ext.files[FileB]) = FileC
  /\ ext.files[FileC] # NoFile
  /\ LinkOf(ext.files[FileC]) = <<>>

\* C4: for a chain A extends B extends C, extend(A) resolves to the
\* template of C, the top of the chain.
C4_ReturnsTopOfChain ==
  (ExtendResolved /\ ChainABC) => ext.tpls[ext.calls[1].ret].file = FileC

\* C5: the merged tree that extend returns holds no extends node, once the
\* resolver has nothing left to do and every load has succeeded.
C5_NoExtendsInResult ==
  (/\ ExtendResolved
   /\ ext.tpls[ext.calls[1].ret].child # 0
   /\ \A c \in DOMAIN ext.calls : ext.calls[c].pc = "returned" /\ ~ext.calls[c].miss)
    => ExtendsIn(store, ext.tpls[ext.calls[1].ret].document) = <<>>

\* C6: a load of a parent that fails is surfaced: the promise of extend does
\* not resolve with a template in a run in which a load has failed.
C6_LoadFailureSurfaced ==
  ExtendResolved => \A c \in DOMAIN ext.calls : ~ext.calls[c].miss

\* C7: when the promise of extend resolves, no call of the resolver is still
\* waiting for a file or still has a splice to make.
C7_NothingPendingAtResolve ==
  ExtendResolved => \A c \in DOMAIN ext.calls : ext.calls[c].pc # "loading"

----------------------------------------------------------------------------
(* C11 - C13: each *)

\* a handler returns to step in this step
HandlerReturns == last' # last \/ calls' # calls

\* each returns to step in this step, for element last'.el
EachReturns == HandlerReturns /\ last'.kind = "eachBlock"

\* the query of an each names what to bind and a collection
WellFormedEach(s, el) ==
  LET parts == QueryParts(EachQuery(s, el))
  IN  parts[1] # <<>> /\ parts[2] # <<>>

\* the value of the collection expression of an each
CollectionOf(s, el) == EachData(QueryParts(EachQuery(s, el))[2], context)

\* undefined, null, an empty array or an empty object
EmptyOrAbsent(x) ==
  \/ x.t \in {"undefined", "null"}
  \/ x.t = "array" /\ x.v = <<>>
  \/ x.t = "object" /\ x.k = <<>>

\* the number of entries of a collection
Entries(x) == IF x.t = "array" THEN Len(x.v) ELSE IF x.t = "object" THEN Len(x.k) ELSE 0

\* C11: when the collection of an each is empty or absent and an else
\* follows it, then after the handler the children of the else stand in
\* the place of the each/else pair: each and else are out of the tree, the
\* copies of the else's children are where the else was, and the other
\* children of the parent are as they were.
C11_EmptyEachRendersElse ==
  [][(/\ EachReturns
      /\ Parent(store, last'.el) # 0
      /\ WellFormedEach(store, last'.el)
      /\ EmptyOrAbsent(CollectionOf(store, last'.el))
      /\ ElseNodes(store, last'.el) # <<>>) =>
        LET el == last'.el
            e == ElseNodes(store, el)[1]
            p == Parent(store, el)
            kids == store[p].kids
            i == IndexOf(kids, el)
            j == IndexOf(kids, e)
            n == Len(store[e].kids)
            new == store'[p].kids
        IN  /\ Len(new) = Len(kids) - 2 + n
            /\ el \notin Range(new) /\ e \notin Range(new)
            /\ \A k \in 1..(i - 1) : new[k] = kids[k]
            /\ \A k \in (i + 1)..(j - 1) : new[k - 1] = kids[k]
            /\ \A k \in 1..n : /\ store'[new[j - 2 + k]].tag = store[store[e].kids[k]].tag
                               /\ store'[new[j - 2 + k]].orig = store[store[e].kids[k]].orig
            /\ \A k \in (j + 1)..Len(kids) : new[k - 2 + n] = kids[k]]_vars

\* C12: the bindings of each do not leak: when no each is running, a lookup
\* of any name gives what it gave before the loop, the context the render
\* started with.
C12_BindingsDoNotLeak ==
  (\A t \in DOMAIN tasks : \A k \in DOMAIN tasks[t].frames : tasks[t].frames[k].k # "each")
    => context = Context0

\* C13: when the collection has n >= 1 entries and the each has m children,
\* the handler puts in the place of the each n x m copies, for every entry
\* in order one copy of every child in order, takes the trailing else out
\* of the tree and leaves the other children of the parent as they were.
C13_EachRendersEveryEntry ==
  [][(/\ EachReturns
      /\ Parent(store, last'.el) # 0
      /\ WellFormedEach(store, last'.el)
      /\ Entries(CollectionOf(store, last'.el)) >= 1) =>
        LET el == last'.el
            p == Parent(store, el)
            kids == store[p].kids
            i == IndexOf(kids, el)
            es == ElseNodes(store, el)
            rest == SelectSeq(SubSeq(kids, i + 1, Len(kids)), LAMBDA c : c \notin Range(es))
            n == Entries(CollectionOf(store, el))
            m == Len(store[el].kids)
            new == store'[p].kids
        IN  /\ Len(new) = (i - 1) + n * m + Len(rest)
            /\ \A k \in 1..(i - 1) : new[k] = kids[k]
            /\ \A k \in 1..(n * m) :
                 LET c == new[i - 1 + k]
                     src == store[el].kids[((k - 1) % m) + 1]
                 IN  /\ c \notin Range(kids)
                     /\ store'[c].tag = store[src].tag
                     /\ store'[c].orig = store[src].orig
            /\ \A k \in DOMAIN rest : new[i - 1 + n * m + k] = rest[k]]_vars

\* each over the two entries of xs, with two children and an else, has
\* returned: four copies, then the text that followed the else
C13_Witness ==
  /\ doc0 = ToStore(Term("#root", NoAttr,
              << Each(<<"v", " in ", "xs">>, << Text(<<"<", "{{", "v", "}}", ">">>), Div(<<Text(<<"{{", "v", "}}">>)>>) >>),
                 Term("else", NoAttr, <<Text(<<"nothing">>)>>), Text(<<"z">>) >>))
  /\ last.kind = "eachBlock" /\ last.el = 2
  /\ Len(store[1].kids) = 5
  /\ store[store[1].kids[1]].attr = <<"<", "a", ">">>
  /\ store[store[1].kids[3]].attr = <<"<", "b", ">">>
  /\ store[store[1].kids[5]].attr = <<"z">>

----------------------------------------------------------------------------
(* C14 - C17: the lookup helpers *)

\* the last call was a lookup with a scope reference
ScopedCall ==
  /\ lookup.op \in {"getData", "getScopeData"}
  /\ lookup.scope.t = "text" /\ lookup.scope.k # <<>>

\* the positions of the stack whose reference is ref, a leading "$" aside
Referenced(d, ref) ==
  IF d.v.scopes.t # "array" THEN {}
  ELSE {k \in DOMAIN d.v.scopes.v :
          StripDollar(d.v.scopes.v[k].v.reference.k) = StripDollar(ref)}

\* C14: a lookup with a scope reference (getData, getScopeData) searches the
\* data of the last-pushed scope of the stack whose reference is the given
\* one, the references compared with a leading "$" stripped from both sides.
C14_LastPushedScopeFirst ==
  (ScopedCall /\ Referenced(data, lookup.scope.k) # {}) =>
    LET hit == Referenced(data, lookup.scope.k)
    IN  lookup.searched = data.v.scopes.v[CHOOSE k \in hit : \A j \in hit : j <= k].v.data

\* the same TemplateData with nothing on the scope stack
NoScopes(d) == Obj(d.k, [d.v EXCEPT !.scopes = Arr(<<>>)])

\* C15: a call of getScopeData with no scope reference searches originalData
\* only: its result is the one the same call gives, for the same path and
\* the same originalData, when the scope stack is empty.
C15_UnscopedReadsOriginalData ==
  (lookup.op = "getScopeData" /\ NoScope(lookup.scope)) =>
    /\ lookup.searched = data.v.originalData
    /\ lookup.result = getScopeData(lookup.text, NoScopes(data), lookup.scope, lookup.key)

\* an unscoped call for a.b was made while a scope on the stack had its own
\* a.b, and it returned the a.b of originalData
C15_Witness ==
  /\ lookup.op = "getScopeData" /\ lookup.scope = Undef /\ lookup.text = <<"a", ".", "b">>
  /\ data.v.scopes.v # <<>>
  /\ find(<<"a", ".", "b">>, data.v.scopes.v[1].v.data) = Num("9")
  /\ lookup.result = find(<<"a", ".", "b">>, data.v.originalData)
  /\ lookup.result \in {Num("1"), Num("5")}

RECURSIVE Descend(_, _)
\* the value reached from obj by the segments in order, undefined as soon
\* as a segment is looked up in something that has no properties
Descend(segs, obj) ==
  IF segs = <<>> THEN obj
  ELSE IF obj.t \in {"object", "array"} THEN Descend(Tail(segs), Prop(obj, Head(segs)))
  ELSE Undef

\* C16: find(path, data) returns the value reached by descending the
\* segments of the path in order, and undefined when a segment is missing,
\* also below an intermediate value that is null, 0, false or "".
C16_FindUndefinedWhenMissing ==
  lookup.op = "find" => lookup.result = Descend(SplitDot(lookup.text), lookup.searched)

RECURSIVE ReplaceEach(_, _)
\* text with every placeholder, from a "{{" "$" to the next "}}", replaced
\* by the JSON text of the value of its own path
ReplaceEach(text, d) ==
  LET starts == {p \in DOMAIN text : /\ text[p] = "{{"
                                     /\ p + 1 <= Len(text) /\ text[p + 1] = "$"
                                     /\ \E q \in (p + 3)..Len(text) : text[q] = "}}"}
  IN  IF starts = {} THEN text
      ELSE LET p == CHOOSE x \in starts : \A y \in starts : x <= y
               q == CHOOSE x \in (p + 3)..Len(text) :
                      text[x] = "}}" /\ \A y \in (p + 3)..(x - 1) : text[y] # "}}"
           IN  SubSeq(text, 1, p - 1)
               \o JSONstringify(find(SubSeq(text, p + 2, q - 1), d))
               \o ReplaceEach(SubSeq(text, q + 1, Len(text)), d)

\* C17: replaceHolders(text, data) replaces every {{$path}} placeholder of
\* the text by the JSON text of the value of its own path and leaves the
\* text between and around the placeholders as it is, also when the text
\* holds two placeholders or more.
C17_EveryHolderReplaced ==
  lookup.op = "replaceHolders" => lookup.result = ReplaceEach(lookup.text, lookup.searched)

----------------------------------------------------------------------------
(* C18 - C20: step *)

AllDone == \A t \in DOMAIN tasks : tasks[t].frames = <<>>

\* C19: step removes every elif, else, when and default that it meets
\* without an opener before it: when all the scans are over, no element
\* with one of these tags is left in the tree.
C19_OrphansRemoved ==
  AllDone => \A n \in Range(Desc(store, 1)) : store[n].tag \notin {"elif", "else", "when", "default"}

\* the children of its node that the scan of step frame f has passed in
\* tree s
Passed(s, f) ==
  {s[f.node].kids[j] : j \in 1..(IF f.i - 1 < Len(s[f.node].kids) THEN f.i - 1
                                                                 ELSE Len(s[f.node].kids))}

\* no scan has passed a child that the switch of step has a handler for
NoneSkipped(s, ts) ==
  \A t \in DOMAIN ts : \A k \in DOMAIN ts[t].frames :
    ts[t].frames[k].k = "step" =>
      \A n \in Passed(s, ts[t].frames[k]) : Dispatch(s[n].tag) = "none"

\* C20: when a handler that step awaited returns, the scan of the node's
\* children is at the first child again, whatever the position it had; and
\* a scan never passes a child that has a handler, so the children after a
\* plain child are visited too.
C20_ScanRestartsFromFirst ==
  [][/\ HandlerReturns =>
          \A t \in DOMAIN tasks :
            tasks'[t].frames # tasks[t].frames =>
              /\ tasks'[t].frames # <<>>
              /\ tasks'[t].frames[Len(tasks'[t].frames)].k = "step"
              /\ tasks'[t].frames[Len(tasks'[t].frames)].i = 1
     /\ NoneSkipped(store', tasks')]_vars

\* the render is over; the second child of the root had a handler, came
\* after a plain child, and has been handled
C20_Witness ==
  /\ MainDone
  /\ Len(doc0[1].kids) >= 2
  /\ Dispatch(doc0[doc0[1].kids[1]].tag) = "none"
  /\ Dispatch(doc0[doc0[1].kids[2]].tag) # "none"
  /\ last.el = doc0[1].kids[2]
  /\ ~Attached(store, last.el)

----------------------------------------------------------------------------
(* C21 - C23 *)

\* C21: when caseBlock or each returns for an element that has no ':'
\* attribute, the element is gone from its parent and nothing stands in
\* its place: the parent keeps its other children (a trailing else of the
\* each aside).
C21_MissingAttrRemovesElement ==
  [][(/\ HandlerReturns
      /\ last'.kind \in {"caseBlock", "eachBlock"}
      /\ last'.el \in DOMAIN store
      /\ store[last'.el].attr = NoAttr
      /\ Parent(store, last'.el) # 0)
     => LET el == last'.el
            p == Parent(store, el)
            rest == Without(store[p].kids, el)
        IN  \/ store'[p].kids = rest
            \/ store'[p].kids = SelectSeq(rest, LAMBDA n : n \notin Range(ElseNodes(store, el)))]_vars

\* node n of the tree is a copy, made by a handler, of a node of the body
\* of an each of the document
EachBodyCopy(n) ==
  /\ n \notin DOMAIN doc0
  /\ \E e \in DOMAIN doc0 :
       /\ doc0[e].tag = "each"
       /\ store[n].orig # e
       /\ store[n].orig \in Range(Desc(doc0, e))

\* C22: an expression that fails inside each resolves to the empty value:
\* when all the scans are over, no text that each copied from its body
\* still holds a placeholder.
C22_FailingExpressionIsEmpty ==
  AllDone =>
    \A n \in Range(Desc(store, 1)) :
      (store[n].tag = "#text" /\ EachBodyCopy(n)) => "{{" \notin Range(store[n].attr)

\* C23: the handler that step calls for an include element that names a
\* registered mixin is the mixin handler, includeMixin.
C23_MixinHandlerDispatched ==
  (/\ last.kind # "none"
   /\ last.el \in DOMAIN doc0
   /\ doc0[last.el].tag = "include"
   /\ doc0[last.el].attr \in Mixins)
  => last.kind = "includeMixin"

----------------------------------------------------------------------------
(* C24 - C27: DB *)

\* the object {column: value}
KeyValue(column, value) == Obj(<<column.v>>, [c \in {column.v} |-> value])

\* C24: a call set(column, value) changes the list of set clauses of the
\* query as the call set({column: value}) does.
C24_SetColumnValueAddsSetClause ==
  [][(db'.op = "build" /\ db'.m = "set" /\ Len(db'.args) = 2)
     => db'.q.sets = set(db.q, <<KeyValue(db'.args[1], db'.args[2])>>).sets]_vars

\* the events of a transaction, in the order they are to happen
TxOrder == <<"acquired", "begun", "callback", "commit", "released", "resolved">>

\* C25: in DB.transaction the connection is acquired, the transaction
\* begun, the callback completed, the commit made (by the transaction
\* itself, after the callback), the connection released and the promise
\* resolved, in this order; the connection is released once, and never by
\* a query of the callback.
C25_TransactionOrder ==
  db.op = "tx" =>
    LET ev == SelectSeq(db.events, LAMBDA e : e \in Range(TxOrder))
    IN  /\ Len(ev) <= Len(TxOrder) /\ ev = SubSeq(TxOrder, 1, Len(ev))
        /\ db.pc = "done" => ev = TxOrder
        /\ "queryRelease" \notin Range(db.events)
        /\ db.releases <= 1
        /\ db.releases = 1 => db.pc = "done"

\* a transaction whose callback made a query it awaited and one it did not
\* await has been resolved
C25_Witness ==
  /\ db.op = "tx" /\ db.pc = "done"
  /\ Len(SelectSeq(db.events, LAMBDA e : e = "queryDone")) = 2
  /\ "ownCommit" \notin Range(db.events)
  /\ db.events[Len(db.events)] = "resolved"

\* C26: paginate called with enablePageRecalculation and a page beyond the
\* last one returns the last page: pages is the least number of pages that
\* hold all the rows, page is pages, lastPage is true and the results are
\* the rows from the first row of that page to the last row of the table.
C26_PageBeyondLastGivesLastPage ==
  (/\ db.op = "paginate" /\ db.pc = "returned" /\ db.recalc
   /\ (AtLeastOne(db.asked) - 1) * db.resultsPerPage >= db.rows)
  => /\ db.ret.pages * db.resultsPerPage >= db.rows
     /\ (db.ret.pages - 1) * db.resultsPerPage < db.rows \/ db.ret.pages = 0
     /\ db.ret.page = db.ret.pages
     /\ db.ret.lastPage
     /\ db.ret.total = db.rows
     /\ db.ret.results =
          [k \in 1..(IF db.rows = 0 THEN 0 ELSE db.rows - (db.ret.pages - 1) * db.resultsPerPage)
             |-> (db.ret.pages - 1) * db.resultsPerPage + k]

\* page 5 of three rows, two to a page, was asked for, and page 2 with
\* row 3 was returned
C26_Witness ==
  /\ db.op = "paginate" /\ db.pc = "returned" /\ db.recalc
  /\ db.rows = 3 /\ db.asked = 5 /\ db.resultsPerPage = 2
  /\ db.ret.page = 2 /\ db.ret.results = <<3>>

----------------------------------------------------------------------------
(* C28 - C29: Server *)


\* C28: when send has answered a request of method head or options, the
\* status, the cookies and the headers of the response were written, and no
\* body was
C28_HeadRequestGetsHeadersOnly ==
  (srv.op = "request" /\ srv.method \in {"head", "options"} /\ srv.res.ended) =>
    /\ srv.res.head.written
    /\ srv.res.head.code = srv.response.code
    /\ srv.res.head.headers = SendHeaders(srv.response)
    /\ srv.res.body = <<>>

\* C29: when request has finished, on whichever path, the client is no
\* longer in Server._clients
C29_FinishedRequestLeavesNoClient ==
  (srv.op = "request" /\ srv.pc = "done") => 1 \notin Range(srv.clients)

----------------------------------------------------------------------------
(* C30: replaceVariables *)

\* the keys of the placeholders of text
HolderKeys(text) ==
  {HolderKey(SubSeq(text, m[1], m[2])) : m \in Range(HolderSpans(text, 1))}

\* every placeholder of text is "{{$", a dotted path and "}}", and the first
\* segment of the path is the reference of no scope on the stack
DottedOutsideScopes(text, d) ==
  /\ HolderKeys(text) # {}
  /\ \A m \in Range(HolderSpans(text, 1)) :
       LET key == HolderKey(SubSeq(text, m[1], m[2]))
       IN  /\ text[m[1] + 1] = "$"
           /\ Len(key) = m[2] - m[1] - 2
           /\ Len(SplitDot(key)) > 1
           /\ Range(key) \subseteq WordTokens \cup {"."}
           /\ NotInTag(text, m[2])
           /\ \A k \in DOMAIN d.v.scopes.v :
                d.v.scopes.v[k].v.reference.k # Head(SplitDot(key))

RECURSIVE FromOriginal(_, _, _)
\* text from position from on, with every placeholder replaced by the text
\* of the value its path leads to in originalData
FromOriginal(text, from, d) ==
  LET spans == HolderSpans(text, from)
  IN  IF spans = <<>> THEN SubSeq(text, from, Len(text))
      ELSE LET m == Head(spans)
           IN  SubSeq(text, from, m[1] - 1)
                 \o StringOf(find(HolderKey(SubSeq(text, m[1], m[2])), d.v.originalData))
                 \o FromOriginal(text, m[2] + 1, d)

\* C30: replaceVariables replaces a placeholder with a dotted path whose
\* first segment is no scope reference by the value the path leads to in
\* originalData
C30_DottedPathReadsOriginalData ==
  (lookup.op = "replaceVariables" /\ DottedOutsideScopes(lookup.text, data)) =>
    lookup.result = FromOriginal(lookup.text, 1, data)

----------------------------------------------------------------------------
(* C31: each in each *)

\* the values of the entries of a collection, in order
EntryValues(x) == [k \in DOMAIN KeysOf(x) |-> Prop(x, KeysOf(x)[k])]

\* the each of the document that text t0 is a child of
InnerEach(t0) == Parent(doc0, t0)

\* t0 is a text of the document, the only thing it holds is the placeholder
\* of the value name of the each it is a child of, and that each lies in
\* another each
InnerHolder(t0) ==
  /\ doc0[t0].tag = "#text"
  /\ InnerEach(t0) # 0
  /\ doc0[InnerEach(t0)].tag = "each"
  /\ WellFormedEach(doc0, InnerEach(t0))
  /\ doc0[t0].attr =
       <<"{{">> \o QueryNames(QueryParts(EachQuery(doc0, InnerEach(t0)))[1])[2] \o <<"}}">>
  /\ \E e1 \in DOMAIN doc0 : doc0[e1].tag = "each" /\ InnerEach(t0) \in Range(Desc(doc0, e1))

\* C31: a placeholder of the inner loop's variable in the body of an each
\* inside an each resolves to the inner loop's values, entry by entry: when
\* all the scans are over, the copies of such a text hold, in document
\* order, the values of the inner collection, one after the other.
C31_InnerPlaceholderGetsInnerValue ==
  AllDone =>
    \A t0 \in DOMAIN doc0 :
      InnerHolder(t0) =>
        LET copies == SelectSeq(Desc(store, 1), LAMBDA n : store[n].orig = t0)
            vals == EntryValues(EachData(QueryParts(EachQuery(doc0, InnerEach(t0)))[2], Context0))
        IN  \A k \in DOMAIN copies :
              store[copies[k]].attr = StringOf(vals[((k - 1) % Len(vals)) + 1])

----------------------------------------------------------------------------
(* C32: nested case *)

RECURSIVE OwnerCase(_, _)
\* the case a when or default belongs to: the nearest case above it
OwnerCase(s, n) ==
  LET p == Parent(s, n)
  IN  IF p = 0 THEN 0 ELSE IF s[p].tag = "case" THEN p ELSE OwnerCase(s, p)

\* C32: the branch caseBlock selects belongs to the case element itself:
\* the nearest case above the winning when or default is the element
\* caseBlock was called on, never a case nested in one of its branches.
C32_OnlyOwnBranchesSelected ==
  [][(CaseReturns /\ last'.winner # 0) => OwnerCase(store, last'.winner) = last'.el]_vars

----------------------------------------------------------------------------
(* C33: extend and a parent without an extends element *)

\* C33: when extend resolves to a parent template, the template it was
\* given as child of it, the document of the child lies in the tree of the
\* parent's document.
C33_ChildContentInReturnedTree ==
  ExtendResolved =>
    LET r == ext.tpls[ext.calls[1].ret]
    IN  r.child # 0 => ext.tpls[r.child].document \in Range(Desc(store, r.document))

----------------------------------------------------------------------------
(* C34 - C37: DB *)

\* C34: a DB instance sends no query on a connection it has released: at
\* every connection.query the instance holds the connection.
C34_NoQueryOnReleasedConnection ==
  db.op = "queries" => \A k \in DOMAIN db.sent : db.sent[k].held

\* nothing is left to happen in a transaction: no answer is due and no
\* step of transaction or of its callback can be taken
TxAtRest ==
  /\ db.op = "tx"
  /\ ~ENABLED (TxAcquire \/ TxBegun \/ TxCallback \/ TxCallbackThrows \/ TxQueryAnswered
                \/ TxCommit \/ TxCommitted \/ TxCommitFailed \/ TxRolledBack \/ TxFinish)

\* C35: on every path DB.transaction releases its connection once, resets
\* the transaction flag and settles its promise: the connection is never
\* released twice, and when nothing is left to happen the promise is
\* settled, the connection released and the flag false.
C35_TransactionAlwaysSettles ==
  /\ db.op = "tx" => db.releases <= 1
  /\ TxAtRest => (db.pc = "done" /\ db.releases = 1 /\ ~db.isTransaction)

\* C36: first() leaves the limit and the offset of the builder as they
\* were before the call, whether it found a row or not.
C36_FirstKeepsLimitAndOffset ==
  (db.op = "first" /\ db.pc = "returned") =>
    (db.limit = db.limit0 /\ db.offset = db.offset0)

\* C37: no query of paginate is issued with an offset below 0, the page
\* paginate returns is at least 1, and firstPage is true exactly when the
\* returned page is 1; this also when the query matches no row.
C37_PaginateOffsetAndPageInRange ==
  db.op = "paginate" =>
    /\ \A i \in 1..Len(db.sent) : db.sent[i] = <<>> \/ db.sent[i][1] >= 0
    /\ db.pc = "returned" =>
          (db.ret.page >= 1 /\ (db.ret.firstPage <=> db.ret.page = 1))

====
